---- MODULE Spec2Model ----
(***************************************************************************)
(* Resilient HTTP client of pkg/httputil: httpClient.Do composes a         *)
(* gobreaker circuit breaker around a retry-go loop around the transport.  *)
(* The breaker is the only shared state; every caller runs Do in its own   *)
(* goroutine.  beforeRequest and afterRequest run under the breaker's      *)
(* mutex and are therefore single steps; the transport invocations of a    *)
(* call happen between them, interleaved with other callers.  The answer   *)
(* of the transport does not depend on the breaker, so the last invocation *)
(* of a call is taken together with the afterRequest that follows it.      *)
(***************************************************************************)
EXTENDS Integers, Sequences, FiniteSets, TLC

(* ---------------- bounds of the exploration ---------------- *)
NumCallers == 2
MaxRetriesBound == 2
MaxThreshold == 2
MaxCBTimeout == 1
MaxTime == 3
AttemptCap == 3

Callers == 1..NumCallers

VARIABLES
    cfg,         \* *Config given to GetClient: MaxRetries, CBThreshold, CBTimeout
    now,         \* the clock read by time.Now() inside the breaker
    cb,          \* the gobreaker.CircuitBreaker held in httpClient.cb
    phase,       \* per caller: "idle", or "running" inside cb.Execute
    gen,         \* per caller: generation returned by beforeRequest
    tries,       \* per caller: transport invocations made so far by the current Do
    last,        \* per caller: outcome of the latest invocation (resp, innerErr)
    ret,         \* the most recent return of a Do: its invocations, last outcome, resp, err
    overlapped,  \* the calls now in flight have shared the breaker with another call
    failRun,     \* number of back-to-back non-overlapping Do calls that ended in failure
    timed,       \* one Do followed on the clock: its attempts, backoff waits and headers
    pure,        \* arguments and result of a function applied on its own
    pool,        \* the workerComponent of pkg/worker and the goroutines using it
    lnch,        \* the launcher of pkg/launcher inside Run
    uow,         \* one UnitOfWork.Do: the calls it has made and what it returned
    hc,          \* one handler.HealthCheck: its checks, resChan and the response
    single,      \* a sync.Once guarded constructor and the goroutines calling it
    pg,          \* the pgComponent of pkg/pgutil and the operations called on it
    brk          \* a breaker of the client used on its own, with the warnings it logged

vars == <<cfg, now, cb, phase, gen, tries, last, ret, overlapped, failRun,
          timed, pure, pool, lnch, uow, hc, single, pg, brk>>

\* the parts of the kit other than the shared client
others == <<timed, pure, pool, lnch, uow, hc, single, pg, brk>>

\* a part that is not exercised by the specification at hand
Unused == [st |-> "unused"]

(* ---------------- values ---------------- *)
\* resp == nil / no response received (transport-level error)
NoResp == 0
\* zero time.Time
ZeroTime == 0

\* statuses the transport may answer with in the exploration
Statuses == {200, 404, 500}
\* outcome of one c.client.Do(req): a status, or NoResp with a non-nil innerErr
TransportOutcomes == Statuses \cup {NoResp}

ErrInternal == "INTERNAL_ERROR"
ErrResourceNotFound == "NOT_FOUND"
ErrInvalidInput == "INVALID_ARGUMENT"
ErrUnauthorized == "UNAUTHENTICATED"
ErrPermissionDenied == "PERMISSION_DENIED"
ErrConflict == "ALREADY_EXISTS"
ErrUnavailable == "SERVICE_UNAVAILABLE"

\* error values: nil, or an *apperr.AppErr with code, message and wrapped cause
NilErr == [kind |-> "nil", code |-> "", message |-> "", cause |-> "nil"]
\* apperr.New
New(code, message) == [kind |-> "AppErr", code |-> code, message |-> message, cause |-> "nil"]
\* (*AppErr).WithError
WithError(e, err) == [e EXCEPT !.cause = err]
\* apperr.Internal
Internal(msg) == New(ErrInternal, msg)
\* apperr.NotFound
NotFound(msg) == New(ErrResourceNotFound, msg)
\* apperr.InvalidInput
InvalidInput(msg) == New(ErrInvalidInput, msg)

\* no Do has returned yet
NotReturned == [kind |-> "none", code |-> "", message |-> "", cause |-> "nil"]

Min(a, b) == IF a < b THEN a ELSE b

(* ---------------- error mapping ---------------- *)
\* messages are written without their accents
MapStatusToError(code, msg) ==
    CASE code = 404 -> NotFound(msg)
      [] code = 400 -> InvalidInput(msg)
      [] code = 401 -> New(ErrUnauthorized, msg)
      [] code = 403 -> New(ErrPermissionDenied, msg)
      [] code = 409 -> New(ErrConflict, msg)
      [] code = 429 -> New(ErrUnavailable, msg)
      [] OTHER -> Internal(msg)

\* faulty variant: the transport error is handed back unwrapped
mapErrorRaw(err, resp) ==
    IF resp # NoResp
    THEN MapStatusToError(resp, "error en peticion HTTP")
    ELSE [kind |-> "raw", code |-> "", message |-> err, cause |-> "nil"]

mapError(err, resp) ==
    IF resp # NoResp
    THEN MapStatusToError(resp, "error en peticion HTTP")
    ELSE WithError(Internal("error de red o timeout"), err)

\* faulty variant: a 4xx/5xx result is turned into an error by Do itself
DoReturnStatusErr(result, err, resp) ==
    IF err # "nil"
    THEN IF err = "ErrOpenState"
         THEN [resp |-> NoResp,
               err |-> WithError(Internal("servicio externo no disponible (circuito abierto)"), err)]
         ELSE [resp |-> NoResp, err |-> mapError(err, resp)]
    ELSE IF result >= 400
         THEN [resp |-> NoResp, err |-> mapError("status", resp)]
         ELSE [resp |-> result, err |-> NilErr]

\* tail of httpClient.Do: what the caller gets from (result, err) of cb.Execute
\* and the captured resp variable
DoReturn(result, err, resp) ==
    IF err # "nil"
    THEN IF err = "ErrOpenState"
         THEN [resp |-> NoResp,
               err |-> WithError(Internal("servicio externo no disponible (circuito abierto)"), err)]
         ELSE [resp |-> NoResp, err |-> mapError(err, resp)]
    ELSE [resp |-> result, err |-> NilErr]

(* ---------------- retry loop ---------------- *)
\* faulty variant: every status from 400 up is reported as an error to the retry loop
RetryFn4xx(o) ==
    IF o = NoResp THEN "net"
    ELSE IF o >= 400 THEN "server error"
    ELSE "nil"

\* faulty variant: a 404 is reported as an error to the retry loop
RetryFnNotFound(o) ==
    IF o = NoResp THEN "net"
    ELSE IF o >= 500 THEN "server error"
    ELSE IF o = 404 THEN "not found"
    ELSE "nil"

\* the retried function: error returned for one transport outcome
RetryFn(o) ==
    IF o = NoResp THEN "net"
    ELSE IF o >= 500 THEN "server error"
    ELSE "nil"

\* retry.RetryIf predicate
RetryIf(err) == err # "nil"

\* retry.Attempts(c.cfg.MaxRetries): total number of invocations, 0 = until success
Attempts == cfg.MaxRetries

\* faulty variant: the loop only stops when the attempts are used up
RetryStopsNoSuccess(n, err) ==
    Attempts # 0 /\ n = Attempts

\* retry.Do stops after the n-th invocation returned err
RetryStops(n, err) ==
    \/ err = "nil"
    \/ ~RetryIf(err)
    \/ Attempts # 0 /\ n = Attempts

(* ---------------- circuit breaker ---------------- *)
\* Settings.MaxRequests: 0 is replaced by 1 in NewCircuitBreaker
maxRequests == 1

\* faulty variant: strict comparison with the threshold
ReadyToTripStrict(b) == b.cf > cfg.CBThreshold

\* Settings.ReadyToTrip
ReadyToTrip(b) == b.cf >= cfg.CBThreshold

toNewGeneration(b, t) ==
    [b EXCEPT !.generation = @ + 1,
              !.requests = 0, !.cs = 0, !.cf = 0,
              !.expiry = IF b.state = "open" THEN t + cfg.CBTimeout ELSE ZeroTime]

setState(b, s, t) ==
    IF b.state = s THEN b ELSE toNewGeneration([b EXCEPT !.state = s], t)

\* faulty variant: an open breaker whose open-duration has elapsed is closed
currentStateSkipsTrial(b, t) ==
    CASE b.state = "closed" ->
            IF b.expiry # ZeroTime /\ b.expiry < t THEN toNewGeneration(b, t) ELSE b
      [] b.state = "open" ->
            IF b.expiry < t THEN setState(b, "closed", t) ELSE b
      [] OTHER -> b

currentState(b, t) ==
    CASE b.state = "closed" ->
            IF b.expiry # ZeroTime /\ b.expiry < t THEN toNewGeneration(b, t) ELSE b
      [] b.state = "open" ->
            IF b.expiry < t THEN setState(b, "half-open", t) ELSE b
      [] OTHER -> b

\* Counts.onRequest; Requests is only ever compared with maxRequests
onRequest(b) == [b EXCEPT !.requests = Min(@ + 1, maxRequests)]

\* faulty variant: strict comparison with maxRequests in the half-open state
beforeRequestLax(b, t) ==
    LET b1 == currentState(b, t) IN
    IF b1.state = "open"
    THEN [cb |-> b1, generation |-> b1.generation, err |-> "ErrOpenState"]
    ELSE IF b1.state = "half-open" /\ b1.requests > maxRequests
    THEN [cb |-> b1, generation |-> b1.generation, err |-> "ErrTooManyRequests"]
    ELSE [cb |-> onRequest(b1), generation |-> b1.generation, err |-> "nil"]

beforeRequest(b, t) ==
    LET b1 == currentState(b, t) IN
    IF b1.state = "open"
    THEN [cb |-> b1, generation |-> b1.generation, err |-> "ErrOpenState"]
    ELSE IF b1.state = "half-open" /\ b1.requests >= maxRequests
    THEN [cb |-> b1, generation |-> b1.generation, err |-> "ErrTooManyRequests"]
    ELSE [cb |-> onRequest(b1), generation |-> b1.generation, err |-> "nil"]

\* faulty variant: a success does not clear the consecutive failures
onSuccessNoReset(b, t) ==
    LET b1 == [b EXCEPT !.cs = Min(@ + 1, maxRequests)] IN
    CASE b.state = "closed" -> b1
      [] b.state = "half-open" ->
            IF b1.cs >= maxRequests THEN setState(b1, "closed", t) ELSE b1
      [] OTHER -> b

onSuccess(b, t) ==
    LET b1 == [b EXCEPT !.cs = Min(@ + 1, maxRequests), !.cf = 0] IN
    CASE b.state = "closed" -> b1
      [] b.state = "half-open" ->
            IF b1.cs >= maxRequests THEN setState(b1, "closed", t) ELSE b1
      [] OTHER -> b

\* faulty variant: a failed trial is not handled
onFailureNoReopen(b, t) ==
    LET b1 == [b EXCEPT !.cf = @ + 1, !.cs = 0] IN
    CASE b.state = "closed" ->
            IF ReadyToTrip(b1) THEN setState(b1, "open", t) ELSE b1
      [] OTHER -> b

onFailure(b, t) ==
    LET b1 == [b EXCEPT !.cf = @ + 1, !.cs = 0] IN
    CASE b.state = "closed" ->
            IF ReadyToTrip(b1) THEN setState(b1, "open", t) ELSE b1
      [] b.state = "half-open" -> setState(b, "open", t)
      [] OTHER -> b

\* faulty variant: an outcome is recorded whatever the generation of its call
afterRequestAnyGeneration(b, before, success, t) ==
    LET b1 == currentState(b, t) IN
    IF success THEN onSuccess(b1, t) ELSE onFailure(b1, t)

afterRequest(b, before, success, t) ==
    LET b1 == currentState(b, t) IN
    IF b1.generation # before THEN b1
    ELSE IF success THEN onSuccess(b1, t) ELSE onFailure(b1, t)

\* gobreaker.NewCircuitBreaker(cbSettings)
NewCircuitBreaker ==
    [state |-> "closed", generation |-> 1, requests |-> 0, cs |-> 0, cf |-> 0,
     expiry |-> ZeroTime]

(* ---------------- the state machine ---------------- *)
InFlight(c) == phase[c] = "running"

Configs ==
    [MaxRetries : 0..MaxRetriesBound, CBThreshold : 1..MaxThreshold,
     CBTimeout : 1..MaxCBTimeout]

Init ==
    /\ cfg \in Configs
    /\ now = 1
    /\ cb = NewCircuitBreaker
    /\ phase = [c \in Callers |-> "idle"]
    /\ gen = [c \in Callers |-> 0]
    /\ tries = [c \in Callers |-> 0]
    /\ last = [c \in Callers |-> NoResp]
    /\ ret = [tries |-> 0, last |-> NoResp, resp |-> NoResp, err |-> NotReturned]
    /\ overlapped = FALSE
    /\ failRun = 0
    /\ timed = Unused /\ pure = Unused /\ pool = Unused /\ lnch = Unused
    /\ uow = Unused /\ hc = Unused /\ single = Unused /\ pg = Unused
    /\ brk = Unused

\* time passes
Tick ==
    /\ now < MaxTime
    /\ now' = now + 1
    /\ UNCHANGED <<cfg, cb, phase, gen, tries, last, ret, overlapped, failRun>>
    /\ UNCHANGED others

\* faulty variant: Do is entered only while no other call is inside cb.Execute
BeginSerialized(c) ==
    /\ phase[c] = "idle"
    /\ \A d \in Callers \ {c} : ~InFlight(d)
    /\ LET r == beforeRequest(cb, now) IN
       /\ cb' = r.cb
       /\ IF r.err = "nil"
          THEN /\ phase' = [phase EXCEPT ![c] = "running"]
               /\ gen' = [gen EXCEPT ![c] = r.generation]
               /\ overlapped' = \E d \in Callers \ {c} : InFlight(d)
               /\ ret' = ret
          ELSE /\ ret' = [tries |-> 0, last |-> NoResp] @@ DoReturn(NoResp, r.err, NoResp)
               /\ UNCHANGED <<phase, gen, overlapped>>
    /\ UNCHANGED <<cfg, now, tries, last, failRun>>
    /\ UNCHANGED others

\* caller c enters Do: cb.Execute runs beforeRequest; a rejected call returns at once
Begin(c) ==
    /\ phase[c] = "idle"
    /\ LET r == beforeRequest(cb, now) IN
       /\ cb' = r.cb
       /\ IF r.err = "nil"
          THEN /\ phase' = [phase EXCEPT ![c] = "running"]
               /\ gen' = [gen EXCEPT ![c] = r.generation]
               /\ overlapped' = \E d \in Callers \ {c} : InFlight(d)
               /\ ret' = ret
          ELSE /\ ret' = [tries |-> 0, last |-> NoResp] @@ DoReturn(NoResp, r.err, NoResp)
               /\ UNCHANGED <<phase, gen, overlapped>>
    /\ UNCHANGED <<cfg, now, tries, last, failRun>>
    /\ UNCHANGED others

\* faulty variant: the breaker is asked before every invocation, and a call
\* that finds it open returns the rejection
AttemptConsults(c) ==
    /\ phase[c] = "running"
    /\ tries[c] < AttemptCap
    /\ IF currentState(cb, now).state = "open"
       THEN /\ cb' = currentState(cb, now)
            /\ ret' = [tries |-> 0, last |-> NoResp] @@ DoReturn(NoResp, "ErrOpenState", NoResp)
            /\ phase' = [phase EXCEPT ![c] = "idle"]
            /\ gen' = [gen EXCEPT ![c] = 0]
            /\ tries' = [tries EXCEPT ![c] = 0]
            /\ last' = [last EXCEPT ![c] = NoResp]
            /\ failRun' = failRun
            /\ overlapped' = (overlapped /\ \E d \in Callers \ {c} : InFlight(d))
       ELSE \E o \in TransportOutcomes :
         LET k == tries[c] + 1
             err == RetryFn(o)
         IN IF RetryStops(k, err)
            THEN /\ cb' = afterRequest(cb, gen[c], err = "nil", now)
                 /\ ret' = [tries |-> k, last |-> o] @@ DoReturn(o, err, o)
                 /\ phase' = [phase EXCEPT ![c] = "idle"]
                 /\ gen' = [gen EXCEPT ![c] = 0]
                 /\ tries' = [tries EXCEPT ![c] = 0]
                 /\ last' = [last EXCEPT ![c] = NoResp]
                 /\ failRun' = IF ~overlapped /\ err # "nil"
                               THEN Min(failRun + 1, cfg.CBThreshold)
                               ELSE 0
                 /\ overlapped' = (overlapped /\ \E d \in Callers \ {c} : InFlight(d))
            ELSE /\ tries' = [tries EXCEPT ![c] = k]
                 /\ last' = [last EXCEPT ![c] = o]
                 /\ UNCHANGED <<cb, ret, phase, gen, failRun, overlapped>>
    /\ UNCHANGED <<cfg, now>>
    /\ UNCHANGED others

\* one invocation of the retried function: c.client.Do(req) answers o.  When
\* retry.Do returns after it, cb.Execute runs afterRequest and Do maps the result.
Attempt(c) ==
    /\ phase[c] = "running"
    /\ tries[c] < AttemptCap
    /\ \E o \in TransportOutcomes :
         LET k == tries[c] + 1
             err == RetryFn(o)
         IN IF RetryStops(k, err)
            THEN /\ cb' = afterRequest(cb, gen[c], err = "nil", now)
                 /\ ret' = [tries |-> k, last |-> o] @@ DoReturn(o, err, o)
                 /\ phase' = [phase EXCEPT ![c] = "idle"]
                 /\ gen' = [gen EXCEPT ![c] = 0]
                 /\ tries' = [tries EXCEPT ![c] = 0]
                 /\ last' = [last EXCEPT ![c] = NoResp]
                 /\ failRun' = IF ~overlapped /\ err # "nil"
                               THEN Min(failRun + 1, cfg.CBThreshold)
                               ELSE 0
                 /\ overlapped' = (overlapped /\ \E d \in Callers \ {c} : InFlight(d))
            ELSE /\ tries' = [tries EXCEPT ![c] = k]
                 /\ last' = [last EXCEPT ![c] = o]
                 /\ UNCHANGED <<cb, ret, phase, gen, failRun, overlapped>>
    /\ UNCHANGED <<cfg, now>>
    /\ UNCHANGED others

Next ==
    \/ Tick
    \/ \E c \in Callers : Begin(c)
    \/ \E c \in Callers : Attempt(c)

Spec == Init /\ [][Next]_vars

TypeOK ==
    /\ cfg \in Configs
    /\ now \in 1..MaxTime
    /\ cb.state \in {"closed", "open", "half-open"}
    /\ \A c \in Callers : phase[c] \in {"idle", "running"}
    /\ \A c \in Callers : tries[c] \in 0..AttemptCap /\ last[c] \in TransportOutcomes
    /\ failRun \in 0..cfg.CBThreshold

(* ---------------- vocabulary of the properties ---------------- *)
\* some Do has returned
Returned == ret.err.kind # "none"

\* the most recent return is a rejection: it came without any transport invocation
Rejected == Returned /\ ret.tries = 0

\* a Do is rejected in this step
Rejects == ret' # ret /\ ret'.tries = 0

\* c's Do is admitted by the breaker in this step
Admitted(c) == phase[c] = "idle" /\ phase'[c] = "running"

\* c's Do leaves cb.Execute in this step (afterRequest runs) and returns
Finishes(c) == phase[c] = "running" /\ phase'[c] = "idle"

\* a retryable outcome: transport error or 5xx
IsFailure(o) == o = NoResp \/ o >= 500

\* the call that returns in this step ended in failure
FinishFailed == IsFailure(ret'.last)

\* the error Do returns for a rejection by an open breaker
CircuitOpenErr ==
    [kind |-> "AppErr", code |-> ErrInternal,
     message |-> "servicio externo no disponible (circuito abierto)",
     cause |-> "ErrOpenState"]

CircuitOpenReturn == [tries |-> 0, last |-> NoResp, resp |-> NoResp, err |-> CircuitOpenErr]

\* the in-flight calls admitted in the breaker's current generation
CurrentGen == {c \in Callers : InFlight(c) /\ gen[c] = cb.generation}

\* the breaker is open and its open-duration has not elapsed
StillOpen == cb.state = "open" /\ now <= cb.expiry

(* ---------------- C1 ---------------- *)
\* C1: once CBThreshold back-to-back Do calls have each ended in failure the
\* breaker is Open, and until CBTimeout has elapsed every Do entered returns
\* the circuit-open error with no transport invocation.
C1_OpenAfterThreshold ==
    [][ /\ (failRun' >= cfg.CBThreshold /\ \A c \in Callers : ~InFlight(c)')
            => cb'.state = "open"
        /\ (failRun >= cfg.CBThreshold /\ StillOpen /\ now' = now)
            => /\ phase' = phase
               /\ tries' = tries
               /\ ret' = ret \/ ret' = CircuitOpenReturn ]_vars

C1_Witness ==
    /\ cfg.CBThreshold >= 2
    /\ failRun >= cfg.CBThreshold
    /\ StillOpen
    /\ ret = CircuitOpenReturn

(* ---------------- C2 ---------------- *)
\* C2: a trial that succeeds closes the breaker with the consecutive-failure
\* counter at 0; a trial that fails reopens it with the open-duration counted
\* from that failure, and no call is admitted until it has elapsed.
C2_TrialOutcome ==
    [][ /\ \A c \in Callers :
             (Finishes(c) /\ cb.state = "half-open" /\ gen[c] = cb.generation)
                => IF FinishFailed
                   THEN cb'.state = "open" /\ cb'.expiry = now + cfg.CBTimeout
                   ELSE cb'.state = "closed" /\ cb'.cf = 0
        /\ \A c \in Callers : StillOpen => ~Admitted(c) ]_vars

C2_Witness ==
    /\ cb.state = "open" /\ cb.generation = 4 /\ cb.expiry = now + cfg.CBTimeout
    /\ ret.tries > 0 /\ ret.err.kind = "AppErr"

(* ---------------- C3 ---------------- *)
\* C3: when the open-duration has elapsed the next Do is admitted, as the
\* trial; while the breaker is HalfOpen at most one call of the current
\* generation is in flight, no Do is admitted while that trial is
\* outstanding, and a Do entered meanwhile returns an error with no
\* transport invocation.
C3_SingleTrial ==
    [][ /\ cb'.state = "half-open" => Cardinality(CurrentGen') <= 1
        /\ (cb.state = "open" /\ cb.expiry < now) => ~Rejects
        /\ \A c \in Callers :
             Admitted(c) =>
                /\ (cb.state = "half-open" => CurrentGen = {})
                /\ (cb'.state = "half-open" => CurrentGen' = {c})
        /\ (cb.state = "half-open" /\ CurrentGen # {} /\ Rejects)
              => ret'.resp = NoResp /\ ret'.err.kind = "AppErr" ]_vars

C3_Witness ==
    /\ cb.state = "half-open"
    /\ \E c \in Callers : CurrentGen = {c} /\ tries[c] > 0
    /\ Rejected
    /\ ret.err.cause = "ErrTooManyRequests"

(* ---------------- C4 ---------------- *)
\* C4: every Do rejected by the breaker, in the Open state or while a
\* HalfOpen trial is outstanding, returns the circuit-open AppErr and never a
\* network/timeout or status-derived error.
C4_RejectionIsCircuitOpen ==
    Rejected =>
        /\ ret.err.kind = "AppErr"
        /\ ret.err.message = "servicio externo no disponible (circuito abierto)"

(* ---------------- C5 ---------------- *)
\* C5: a Do whose every attempt is a retryable failure invokes the transport
\* exactly MaxRetries + 1 times, and no Do invokes it more often than that.
C5_MaxRetriesPlusOne ==
    /\ \A c \in Callers : tries[c] <= cfg.MaxRetries + 1
    /\ ret.tries <= cfg.MaxRetries + 1
    /\ (ret.tries > 0 /\ IsFailure(ret.last)) => ret.tries = cfg.MaxRetries + 1

(* ---------------- C6 ---------------- *)
\* C6: when the transport answers with retryable failures (5xx among them)
\* on attempts 1..K-1 and with a status below 500 on attempt K, K within the
\* attempts the retry loop is given, Do makes exactly K invocations and
\* returns the K-th response with a nil error: a call is never inside the
\* loop after an answer below 500, it returns that answer, and it does not
\* return a failure before its attempts are used up.
C6_SuccessAtK ==
    /\ \A c \in Callers : (InFlight(c) /\ tries[c] > 0) => IsFailure(last[c])
    /\ (ret.tries > 0 /\ ~IsFailure(ret.last))
          => ret.resp = ret.last /\ ret.err = NilErr
    /\ (ret.tries > 0 /\ IsFailure(ret.last))
          => Attempts # 0 /\ ret.tries = Attempts

C6_Witness ==
    /\ ret = [tries |-> 2, last |-> 200, resp |-> 200, err |-> NilErr]
    /\ cfg.MaxRetries = 2

(* ---------------- C7 ---------------- *)
\* C7: when the first attempt answers with a status below 500 the retry loop
\* makes exactly one transport invocation, whatever attempts remain: no call
\* is inside the loop with an answer below 500 behind it.
C7_NoRetryBelow500 ==
    \A c \in Callers : tries[c] > 0 => (last[c] = NoResp \/ last[c] >= 500)

C7_Witness ==
    /\ ret.tries = 1 /\ ret.last = 404
    /\ cfg.MaxRetries # 1

(* ---------------- C8 ---------------- *)
\* C8 as stated: every Do that succeeds leaves the consecutive-failure
\* counter at 0 and every Do that exhausts its retries adds exactly 1 to it
\* (the counter being cleared when that failure trips the breaker).
C8_EveryCallCounts ==
    [][ \A c \in Callers :
          Finishes(c) =>
             IF FinishFailed
             THEN \/ cb'.cf = cb.cf + 1
                  \/ cb.state = "closed" /\ cb'.state = "open"
             ELSE cb'.cf = 0 ]_vars

\* C8 amended: the counter never changes between attempts; a Do admitted
\* while Closed and finishing in the same generation sets it to 0 on success
\* and adds exactly 1 on failure however many attempts it made (the counter
\* is cleared when that trips the breaker); a failed HalfOpen trial or a Do
\* finishing in a later generation adds nothing.
C8_OneOutcomePerCall ==
    [][ /\ (\A c \in Callers : ~Finishes(c)) => cb'.cf = cb.cf
        /\ \A c \in Callers :
             Finishes(c) =>
                IF cb.state = "closed" /\ gen[c] = cb.generation
                THEN IF ~FinishFailed
                     THEN cb'.cf = 0 /\ cb'.state = "closed"
                     ELSE IF cb.cf + 1 >= cfg.CBThreshold
                          THEN cb'.state = "open" /\ cb'.cf = 0
                          ELSE cb'.state = "closed" /\ cb'.cf = cb.cf + 1
                ELSE cb'.cf = cb.cf ]_vars

C8_Witness ==
    /\ cb.state = "closed" /\ cb.cf = 1
    /\ ret.tries = 2 /\ ret.err.kind = "AppErr"

(* ---------------- C9 ---------------- *)
\* C9 as stated: a Do whose first attempt answers 404 makes no retry and
\* returns a categorized not-found error.
C9_NotFoundError ==
    /\ \A c \in Callers : tries[c] > 0 => last[c] # 404
    /\ (ret.tries > 0 /\ ret.last = 404)
          => /\ ret.resp = NoResp
             /\ ret.err.code = ErrResourceNotFound

\* C9 amended: a Do whose first attempt answers 404 makes no retry and
\* returns that 404 response with a nil error; the not-found category is what
\* MapStatusToError gives for the status of that response.
C9_NotFoundResponse ==
    /\ \A c \in Callers : tries[c] > 0 => last[c] # 404
    /\ (ret.tries > 0 /\ ret.last = 404)
          => /\ ret.resp = 404 /\ ret.err = NilErr
             /\ MapStatusToError(ret.resp, "m").code = ErrResourceNotFound

C9_Witness ==
    /\ ret = [tries |-> 1, last |-> 404, resp |-> 404, err |-> NilErr]
    /\ cfg.MaxRetries = 2

(* ---------------- C10 ---------------- *)
\* C10: every Do returns either a response with a nil error or no response
\* with an AppErr; never both, neither, or an error that is not an AppErr.
C10_ResponseXorAppErr ==
    Returned =>
        \/ ret.resp # NoResp /\ ret.err = NilErr
        \/ ret.resp = NoResp /\ ret.err.kind = "AppErr"

C10_Witness ==
    /\ ret.tries = 2 /\ ret.last = NoResp
    /\ ret.resp = NoResp
    /\ ret.err.kind = "AppErr" /\ ret.err.cause = "net"

(* ======================================================================= *)
(* One Do followed on the clock.  The breaker is closed and admits the     *)
(* call; the call is the only one.  Durations are counted in ticks.        *)
(* ======================================================================= *)
MaxTimeout == 2
MaxRetryDelay == 2
MaxCallRetries == 4
CallAttemptCap == 4

\* the variables of the shared client
client == <<cfg, now, cb, phase, gen, tries, last, ret, overlapped, failRun>>

\* the shared client before any call
ClientAtRest ==
    /\ now = 1
    /\ cb = NewCircuitBreaker
    /\ phase = [c \in Callers |-> "idle"]
    /\ gen = [c \in Callers |-> 0]
    /\ tries = [c \in Callers |-> 0]
    /\ last = [c \in Callers |-> NoResp]
    /\ ret = [tries |-> 0, last |-> NoResp, resp |-> NoResp, err |-> NotReturned]
    /\ overlapped = FALSE
    /\ failRun = 0

(* ---------------- request context ---------------- *)
\* the key type logz keeps its correlation id under: the value ctxCorrelationKey{}
CtxCorrelationKey == "logz.ctxCorrelationKey{}"
\* the key getRequestID looks up: the string "request_id"
RequestIDKey == "request_id"
\* no X-Request-ID header on the request
NoHeader == ""
CorrelationIDs == {"id-a", "id-b"}

\* context.Background()
Background == [k \in {} |-> ""]
\* context.WithValue
WithValue(ctx, key, val) ==
    [k \in DOMAIN ctx \cup {key} |-> IF k = key THEN val ELSE ctx[k]]
\* logz.WithCorrelationID
WithCorrelationID(ctx, id) == WithValue(ctx, CtxCorrelationKey, id)
\* httpClient.getRequestID
getRequestID(ctx) == IF RequestIDKey \in DOMAIN ctx THEN ctx[RequestIDKey] ELSE ""

\* contexts a request may come with
Contexts ==
    {Background}
        \cup {WithCorrelationID(Background, id) : id \in CorrelationIDs}
        \cup {WithValue(Background, RequestIDKey, id) : id \in CorrelationIDs}

(* ---------------- backoff ---------------- *)
\* faulty variant: retry.FixedDelay, the same wait after every attempt
FixedDelay(n) == cfg.RetryDelay

\* retry.BackOffDelay with retry.Delay(cfg.RetryDelay): delay << n
BackOffDelay(n) == cfg.RetryDelay * 2^n

CallConfigs ==
    [MaxRetries : 0..MaxCallRetries, Timeout : 1..MaxTimeout,
     RetryDelay : 1..MaxRetryDelay]

\* shift is the argument retry.Do gives the delay function for the first wait:
\* 0 or 1 depending on the retry-go v4 release the module is built against
InitCall ==
    /\ cfg \in CallConfigs
    /\ ClientAtRest
    /\ brk = Unused
    /\ pure = Unused /\ pool = Unused /\ lnch = Unused
    /\ uow = Unused /\ hc = Unused /\ single = Unused /\ pg = Unused
    /\ \E s \in {0, 1}, ctx \in Contexts, h \in {NoHeader, "caller"} :
         timed = [st |-> "ready", n |-> 0, elapsed |-> 0, begun |-> 0,
                  wait |-> 0, waited |-> 0, prev |-> 0, shift |-> s,
                  ctx |-> ctx, hdr |-> h, sent |-> NoHeader,
                  resp |-> NoResp, err |-> NotReturned]

\* the retried function is entered: the header is set from the context and
\* c.client.Do(req) is called
Invoke ==
    /\ \/ timed.st = "ready"
       \/ timed.st = "waiting" /\ timed.waited = timed.wait
    /\ timed.n < CallAttemptCap
    /\ LET id == getRequestID(timed.ctx)
           h == IF id # "" THEN id ELSE timed.hdr
       IN timed' = [timed EXCEPT !.st = "inflight", !.n = @ + 1,
                                 !.begun = timed.elapsed, !.hdr = h, !.sent = h]
    /\ UNCHANGED <<client, brk, pure, pool, lnch, uow, hc, single, pg>>

\* a tick passes while c.client.Do(req) is in flight; http.Client.Timeout
\* limits the time of this one invocation
FlightTick ==
    /\ timed.st = "inflight"
    /\ timed.elapsed - timed.begun < cfg.Timeout
    /\ timed' = [timed EXCEPT !.elapsed = @ + 1]
    /\ UNCHANGED <<client, brk, pure, pool, lnch, uow, hc, single, pg>>

\* c.client.Do(req) returns o; at the timeout it returns an error.  retry.Do
\* either returns, and Do with it, or starts a backoff wait.
Answer ==
    /\ timed.st = "inflight"
    /\ \E o \in TransportOutcomes :
         /\ timed.elapsed - timed.begun = cfg.Timeout => o = NoResp
         /\ LET err == RetryFn(o)
                r == DoReturn(o, err, o)
                w == BackOffDelay(timed.n - 1 + timed.shift)
            IN IF RetryStops(timed.n, err)
               THEN timed' = [timed EXCEPT !.st = "done", !.resp = r.resp, !.err = r.err]
               ELSE timed' = [timed EXCEPT !.st = "waiting", !.prev = timed.wait,
                                           !.wait = w, !.waited = 0]
    /\ UNCHANGED <<client, brk, pure, pool, lnch, uow, hc, single, pg>>

\* a tick of the backoff wait passes
BackoffTick ==
    /\ timed.st = "waiting"
    /\ timed.waited < timed.wait
    /\ timed' = [timed EXCEPT !.waited = @ + 1, !.elapsed = @ + 1]
    /\ UNCHANGED <<client, brk, pure, pool, lnch, uow, hc, single, pg>>

NextCall == Invoke \/ FlightTick \/ Answer \/ BackoffTick

SpecCall == InitCall /\ [][NextCall]_vars

(* ---------------- C11 ---------------- *)
\* C11: Config.Timeout bounds the whole Do: the time since Do was entered,
\* attempts and backoff waits together, never exceeds Timeout, and no attempt
\* is started once Timeout has elapsed.
C11_TimeoutBoundsCall ==
    /\ timed.elapsed <= cfg.Timeout
    /\ timed.st = "inflight" => timed.begun < cfg.Timeout

(* ---------------- C12 ---------------- *)
\* C12 as stated: the wait after the n-th failed attempt is RetryDelay * n.
C12_LinearBackoff ==
    timed.st = "waiting" => timed.wait = cfg.RetryDelay * timed.n

\* C12: the wait after the first failed attempt is RetryDelay or twice
\* RetryDelay, and the wait after every later failed attempt is twice the wait
\* before it: after the n-th failed attempt it is RetryDelay * 2^(n-1+shift).
C12_ExponentialBackoff ==
    timed.st = "waiting" =>
        /\ timed.n = 1 => timed.wait \in {cfg.RetryDelay, 2 * cfg.RetryDelay}
        /\ timed.n > 1 => timed.wait = 2 * timed.prev
        /\ timed.wait = cfg.RetryDelay * 2^(timed.n - 1 + timed.shift)

\* the wait after the third failed attempt has passed
C12_Witness ==
    /\ timed.st = "waiting" /\ timed.n = 3 /\ timed.waited = timed.wait
    /\ timed.wait # cfg.RetryDelay * 3

(* ---------------- C14 ---------------- *)
\* C14: when the context of the request carries a correlation id attached by
\* logz.WithCorrelationID, every attempt is sent with that id in X-Request-ID.
C14_CorrelationIDPropagated ==
    (CtxCorrelationKey \in DOMAIN timed.ctx /\ timed.n >= 1) =>
        timed.sent = timed.ctx[CtxCorrelationKey]

(* ======================================================================= *)
(* MapStatusToError and DoJSON applied to their arguments.                 *)
(* ======================================================================= *)
ErrNotImplemented == "NOT_IMPLEMENTED"
ErrDeadlineExceeded == "TIMEOUT"

\* status codes an upstream may answer with
StatusCodes == 100..599
\* what io.ReadAll and json.Unmarshal make of the body of the response
Bodies == {"valid", "malformed", "unreadable"}
\* the messages MapStatusToError is called with
StatusMessages == {"error en peticion HTTP", "error en respuesta de API externa"}
\* nil *T
NoData == "nil"

\* what client.Do(req) returned to DoJSON: the transport's last answer o mapped
\* by Do, or the rejection of an open breaker
DoResult(o, rejected) ==
    IF rejected
    THEN DoReturn(NoResp, "ErrOpenState", NoResp)
    ELSE DoReturn(o, RetryFn(o), o)

\* faulty variant: a body that does not decode is reported like an upstream status
DoJSONByStatus(d, body) ==
    IF d.err.kind # "nil" THEN [data |-> NoData, err |-> d.err]
    ELSE IF d.resp >= 400 \/ body # "valid"
    THEN [data |-> NoData,
          err |-> MapStatusToError(d.resp, "error en respuesta de API externa")]
    ELSE [data |-> "decoded", err |-> NilErr]

\* DoJSON[T]: d is the (resp, err) of client.Do
DoJSON(d, body) ==
    IF d.err.kind # "nil" THEN [data |-> NoData, err |-> d.err]
    ELSE IF d.resp >= 400
    THEN [data |-> NoData,
          err |-> MapStatusToError(d.resp, "error en respuesta de API externa")]
    ELSE IF body = "unreadable"
    THEN [data |-> NoData,
          err |-> WithError(Internal("error al leer el cuerpo de la respuesta"), "read")]
    ELSE IF body = "malformed"
    THEN [data |-> NoData,
          err |-> WithError(Internal("error al decodificar respuesta JSON"), "json")]
    ELSE [data |-> "decoded", err |-> NilErr]

\* the configuration plays no part in the two functions
InitFn ==
    /\ cfg = CHOOSE c \in Configs : TRUE
    /\ ClientAtRest
    /\ brk = Unused
    /\ timed = Unused /\ pool = Unused /\ lnch = Unused
    /\ uow = Unused /\ hc = Unused /\ single = Unused /\ pg = Unused
    /\ \E o \in StatusCodes \cup {NoResp}, rejected \in BOOLEAN, b \in Bodies,
          m \in StatusMessages :
         pure = [st |-> "args", o |-> o, rejected |-> rejected, body |-> b,
                 msg |-> m, data |-> NoData, err |-> NotReturned]

\* MapStatusToError(code, msg) is called on a status
ApplyMapStatus ==
    /\ pure.st = "args"
    /\ pure.o # NoResp
    /\ pure' = [pure EXCEPT !.st = "mapped", !.err = MapStatusToError(pure.o, pure.msg)]
    /\ UNCHANGED <<client, brk, timed, pool, lnch, uow, hc, single, pg>>

\* DoJSON is called; its client.Do ends as o and rejected say
ApplyDoJSON ==
    /\ pure.st = "args"
    /\ LET r == DoJSON(DoResult(pure.o, pure.rejected), pure.body)
       IN pure' = [pure EXCEPT !.st = "decoded", !.data = r.data, !.err = r.err]
    /\ UNCHANGED <<client, brk, timed, pool, lnch, uow, hc, single, pg>>

NextFn == ApplyMapStatus \/ ApplyDoJSON

SpecFn == InitFn /\ [][NextFn]_vars

\* the errors Do and DoJSON return for an upstream status
StatusErrors ==
    {MapStatusToError(s, m) : s \in StatusCodes, m \in StatusMessages}

(* ---------------- C13 ---------------- *)
\* C13: MapStatusToError gives 400, 422 and 413 the invalid-input code, 401
\* unauthorized, 403 permission-denied, 404 not-found, 405 not-implemented,
\* 408 and 504 deadline-exceeded, 409 conflict, 429 and 503 unavailable, and
\* 500 and every other 5xx internal.
C13_StatusTable ==
    pure.st = "mapped" =>
        LET s == pure.o
            code == pure.err.code
        IN /\ s \in {400, 422, 413} => code = ErrInvalidInput
           /\ s = 401 => code = ErrUnauthorized
           /\ s = 403 => code = ErrPermissionDenied
           /\ s = 404 => code = ErrResourceNotFound
           /\ s = 405 => code = ErrNotImplemented
           /\ s \in {408, 504} => code = ErrDeadlineExceeded
           /\ s = 409 => code = ErrConflict
           /\ s \in {429, 503} => code = ErrUnavailable
           /\ (s >= 500 /\ s \notin {503, 504}) => code = ErrInternal

(* ---------------- C15 ---------------- *)
\* C15: when the upstream answers 200 and the body does not decode, DoJSON
\* returns no data and an AppErr of the internal category that wraps the decode
\* failure and equals none of the errors returned for an upstream status.
C15_DecodeFailureInternal ==
    (pure.st = "decoded" /\ ~pure.rejected /\ pure.o = 200 /\ pure.body = "malformed") =>
        /\ pure.data = NoData
        /\ pure.err.kind = "AppErr"
        /\ pure.err.code = ErrInternal
        /\ pure.err.cause = "json"
        /\ pure.err \notin StatusErrors

\* DoJSON has returned for a 200 whose body does not decode
C15_Witness ==
    /\ pure.st = "decoded" /\ ~pure.rejected /\ pure.o = 200 /\ pure.body = "malformed"
    /\ pure.err.message = "error al decodificar respuesta JSON"

(* ======================================================================= *)
(* The worker pool of pkg/worker: goroutines call Dispatch and OnStart at  *)
(* any time, OnStart as often as the goroutines it starts stay within      *)
(* MaxPoolSize in all, one call at a time; OnStop is called once.  The     *)
(* loop of OnStart starts its goroutines one by one, and the others run in *)
(* between.  Channel operations are atomic; a panic in any goroutine ends  *)
(* the process.                                                            *)
(* ======================================================================= *)
MaxPoolSize == 2
MaxBufferSize == 2
NumTasks == 2

Tasks == 1..NumTasks
NoTask == 0

WorkerConfigs == [PoolSize : 0..MaxPoolSize, BufferSize : 0..MaxBufferSize]

\* the goroutines OnStart has started so far
Workers == {w \in 1..MaxPoolSize : pool.wstate[w] # "unborn"}

\* GetWorker: taskQueue = make(chan Task, cfg.BufferSize), no goroutine yet
GetWorker(c) ==
    [cfg |-> c, queue |-> << >>, closed |-> FALSE, cancelled |-> FALSE,
     started |-> FALSE, stop |-> "none", crashed |-> FALSE,
     starting |-> 0, atReturn |-> [started |-> FALSE, running |-> {}],
     wstate |-> [w \in 1..MaxPoolSize |-> "unborn"],
     job |-> [w \in 1..MaxPoolSize |-> NoTask],
     result |-> [t \in Tasks |-> "none"],
     fullAt |-> [t \in Tasks |-> FALSE],
     executed |-> {}, pending |-> {},
     runs |-> [t \in Tasks |-> 0],
     erred |-> [w \in 1..MaxPoolSize |-> FALSE],
     errors |-> {}, afterErr |-> {}]

InitWorker ==
    /\ cfg = CHOOSE c \in Configs : TRUE
    /\ ClientAtRest
    /\ brk = Unused
    /\ timed = Unused /\ pure = Unused /\ lnch = Unused
    /\ uow = Unused /\ hc = Unused /\ single = Unused /\ pg = Unused
    /\ \E c \in WorkerConfigs : pool = GetWorker(c)

\* workers blocked in the receive of `range w.taskQueue`
Parked == {w \in Workers : pool.wstate[w] = "parked"}

\* tasks sent to the channel and not yet taken up by runWorker's loop body
Held == {pool.queue[i] : i \in DOMAIN pool.queue}

\* faulty variant: OnStop returns without waiting for the goroutines
WaitReturnsAtOnce(ws) == TRUE

\* w.wg.Wait() returns: every goroutine added by OnStart has called wg.Done
WaitReturns(ws) == \A w \in DOMAIN ws : ws[w] \in {"unborn", "exited"}

\* OnStart is called, at any time: its loop has PoolSize iterations to make;
\* with none to make it returns at once
OnStart ==
    /\ ~pool.crashed
    /\ pool.starting = 0
    /\ Cardinality(Workers) + pool.cfg.PoolSize <= MaxPoolSize
    /\ pool' = [pool EXCEPT !.starting = pool.cfg.PoolSize,
                            !.started = @ \/ pool.cfg.PoolSize = 0]
    /\ UNCHANGED <<client, brk, timed, pure, lnch, uow, hc, single, pg>>

\* one iteration of the loop of OnStart: w.wg.Add(1) and a goroutine entering
\* runWorker, on top of the goroutines started before; after the last one
\* OnStart returns.  An Add that meets the Wait of OnStop just as every
\* goroutine started so far has ended may panic instead (sync: WaitGroup
\* misuse), in OnStart or in OnStop.
OnStartLoop ==
    /\ ~pool.crashed
    /\ pool.starting > 0
    /\ LET born == Cardinality(Workers)
           misuse == /\ pool.stop = "waiting" /\ Workers # {}
                     /\ WaitReturns(pool.wstate)
       IN \E panics \in BOOLEAN :
            /\ panics => misuse
            /\ pool' = IF panics THEN [pool EXCEPT !.crashed = TRUE]
                       ELSE [pool EXCEPT !.starting = @ - 1,
                                         !.started = @ \/ pool.starting = 1,
                                         !.wstate[born + 1] = "ready"]
    /\ UNCHANGED <<client, brk, timed, pure, lnch, uow, hc, single, pg>>

\* Dispatch(t): select { case w.taskQueue <- t: return true; default: return false }
\* A send on a closed channel panics; a send succeeds when a receiver is blocked
\* on the channel or the buffer has room.
Dispatch(t) ==
    /\ ~pool.crashed /\ pool.result[t] = "none"
    /\ LET full == Len(pool.queue) = pool.cfg.BufferSize IN
       IF pool.closed
       THEN pool' = [pool EXCEPT !.result[t] = "panic", !.fullAt[t] = full,
                                 !.crashed = TRUE]
       ELSE IF Parked # {}
       THEN \E w \in Parked :
              pool' = [pool EXCEPT !.result[t] = "true", !.fullAt[t] = full,
                                   !.wstate[w] = "busy", !.job[w] = t]
       ELSE IF ~full
       THEN pool' = [pool EXCEPT !.result[t] = "true", !.fullAt[t] = full,
                                 !.queue = Append(@, t)]
       ELSE pool' = [pool EXCEPT !.result[t] = "false", !.fullAt[t] = full]
    /\ UNCHANGED <<client, brk, timed, pure, lnch, uow, hc, single, pg>>

\* runWorker, the receive of `for task := range w.taskQueue`: the next task is
\* taken, or the loop ends on a closed and drained channel, or the goroutine blocks
Receive(w) ==
    /\ ~pool.crashed /\ w \in Workers
    /\ pool.wstate[w] \in {"ready", "parked"}
    /\ IF pool.queue # << >>
       THEN /\ pool.wstate[w] = "ready"
            /\ pool' = [pool EXCEPT !.wstate[w] = "busy", !.job[w] = Head(pool.queue),
                                    !.queue = Tail(@)]
       ELSE IF pool.closed
       THEN pool' = [pool EXCEPT !.wstate[w] = "exited"]
       ELSE /\ pool.wstate[w] = "ready"
            /\ pool' = [pool EXCEPT !.wstate[w] = "parked"]
    /\ UNCHANGED <<client, brk, timed, pure, lnch, uow, hc, single, pg>>

\* faulty variant: a task that returns an error ends the goroutine
ExecuteStopsOnError(w) ==
    /\ ~pool.crashed /\ w \in Workers
    /\ pool.wstate[w] = "busy"
    /\ \E err \in BOOLEAN :
         pool' = [pool EXCEPT !.wstate[w] = IF err THEN "exited" ELSE "ready",
                              !.job[w] = NoTask,
                              !.executed = @ \cup {pool.job[w]},
                              !.runs[pool.job[w]] = @ + 1,
                              !.erred[w] = @ \/ err,
                              !.errors = IF err THEN @ \cup {pool.job[w]} ELSE @,
                              !.afterErr = IF pool.erred[w] THEN @ \cup {pool.job[w]} ELSE @]
    /\ UNCHANGED <<client, brk, timed, pure, lnch, uow, hc, single, pg>>

\* runWorker, the loop body: task(w.ctx) returns nil or an error; the error is
\* logged with the worker's id and the loop goes on
Execute(w) ==
    /\ ~pool.crashed /\ w \in Workers
    /\ pool.wstate[w] = "busy"
    /\ \E err \in BOOLEAN :
         pool' = [pool EXCEPT !.wstate[w] = "ready", !.job[w] = NoTask,
                              !.executed = @ \cup {pool.job[w]},
                              !.runs[pool.job[w]] = @ + 1,
                              !.erred[w] = @ \/ err,
                              !.errors = IF err THEN @ \cup {pool.job[w]} ELSE @,
                              !.afterErr = IF pool.erred[w] THEN @ \cup {pool.job[w]} ELSE @]
    /\ UNCHANGED <<client, brk, timed, pure, lnch, uow, hc, single, pg>>

\* OnStop, first half: close(w.taskQueue); w.cancel()
OnStopClose ==
    /\ ~pool.crashed /\ pool.stop = "none"
    /\ pool' = [pool EXCEPT !.closed = TRUE, !.cancelled = TRUE, !.stop = "waiting",
                            !.pending = (Held \cup {pool.job[w] : w \in Workers}) \ {NoTask}]
    /\ UNCHANGED <<client, brk, timed, pure, lnch, uow, hc, single, pg>>

\* OnStop, second half: w.wg.Wait() returns and OnStop returns nil
OnStopReturn ==
    /\ ~pool.crashed /\ pool.stop = "waiting"
    /\ WaitReturns(pool.wstate)
    /\ pool' = [pool EXCEPT !.stop = "returned",
                            !.atReturn = [started |-> pool.started,
                                          running |-> {w \in Workers :
                                                         pool.wstate[w] # "exited"}]]
    /\ UNCHANGED <<client, brk, timed, pure, lnch, uow, hc, single, pg>>

NextWorker ==
    \/ OnStart
    \/ OnStartLoop
    \/ \E t \in Tasks : Dispatch(t)
    \/ \E w \in 1..MaxPoolSize : Receive(w)
    \/ \E w \in 1..MaxPoolSize : Execute(w)
    \/ OnStopClose
    \/ OnStopReturn

SpecWorker == InitWorker /\ [][NextWorker]_vars

\* tasks accepted by the pool: in the channel, with a worker, or executed
Accepted == (Held \cup {pool.job[w] : w \in Workers} \cup pool.executed) \ {NoTask}

(* ---------------- C16 ---------------- *)
\* C16: every Dispatch returns at once: true exactly when the task was placed
\* in the queue, false exactly when the queue already held BufferSize tasks;
\* the queue never holds more than BufferSize tasks and a task whose Dispatch
\* returned false is never executed.
C16_DispatchBackpressure ==
    /\ Len(pool.queue) <= pool.cfg.BufferSize
    /\ \A t \in Tasks :
         /\ pool.result[t] = "true" <=> t \in Accepted
         /\ pool.result[t] = "false" <=> (pool.result[t] # "none" /\ pool.fullAt[t])
         /\ pool.result[t] = "false" => t \notin pool.executed

(* ---------------- C17 ---------------- *)
\* C17: for a pool with PoolSize >= 1 that was started when OnStop returned,
\* every task whose Dispatch returned true has been executed and, at the
\* return of OnStop, every worker goroutine had ended.
C17_GracefulShutdown ==
    (pool.stop = "returned" /\ pool.atReturn.started /\ pool.cfg.PoolSize >= 1) =>
        /\ \A t \in Tasks : pool.result[t] = "true" => t \in pool.executed
        /\ pool.atReturn.running = {}

\* OnStop has returned on a started pool that held two accepted tasks when the
\* queue was closed
C17_Witness ==
    /\ pool.stop = "returned" /\ pool.atReturn.started /\ pool.cfg.PoolSize >= 1
    /\ Cardinality(pool.pending) >= 2
    /\ pool.pending \subseteq pool.executed

(* ---------------- C18 ---------------- *)
\* C18: under every interleaving with OnStart and OnStop, also during and
\* after OnStop, a Dispatch returns true or false and the process never crashes.
C18_DispatchNeverCrashes ==
    /\ ~pool.crashed
    /\ \A t \in Tasks : pool.result[t] \in {"none", "true", "false"}

(* ======================================================================= *)
(* The launcher of pkg/launcher inside Run.  OnInit, the hooks and OnStart *)
(* are synchronous calls; every OnStop runs in a goroutine of its own that *)
(* shutdown waits for until the timeout.  log is the sequence of calls,    *)
(* returns and signals seen so far.                                        *)
(* ======================================================================= *)
MaxComponents == 3
MaxHooks == 2

\* an entry of the log
Event(op, idx, ok) == [op |-> op, idx |-> idx, ok |-> ok]

\* faulty variant: the hooks are skipped
PhaseAfterNoHooks(p) ==
    CASE p = "init" -> "start"
      [] p = "hooks" -> "start"
      [] p = "start" -> "wait"

\* the order of the loops of Run
PhaseAfter(p) ==
    CASE p = "init" -> "hooks"
      [] p = "hooks" -> "start"
      [] p = "start" -> "wait"

\* number of iterations of the loop of phase p
LoopLen(l, p) ==
    CASE p = "init" -> l.n
      [] p = "hooks" -> l.h
      [] p = "start" -> l.n
      [] OTHER -> 0

\* Run at iteration i of loop p: loops that are over are left
RECURSIVE At(_, _, _)
At(l, p, i) ==
    IF p \in {"init", "hooks", "start"} /\ i > LoopLen(l, p)
    THEN At(l, PhaseAfter(p), 1)
    ELSE [l EXCEPT !.pc = p, !.i = IF p = "wait" THEN 0 ELSE i]

\* faulty variant: shutdown walks the components in registration order
StopOrderForward(n, s) == s

\* the component of iteration s of shutdown's loop: i runs from len-1 down to 0
StopOrder(n, s) == n + 1 - s

\* shutdown is entered
Shutdown(l) == [l EXCEPT !.pc = "shutdown", !.i = 1]

\* shutdown goes on to its next iteration, or returns: Run then returns or
\* calls os.Exit(1)
Continue(l) ==
    IF l.i < l.n THEN [l EXCEPT !.i = @ + 1]
    ELSE [l EXCEPT !.pc = "exited", !.i = 0, !.code = l.then]

\* launcher.New followed by Append of n components and BeforeStart of h hooks
NewLauncher(n, h) ==
    [n |-> n, h |-> h, pc |-> "init", i |-> 1, log |-> << >>,
     stop |-> [c \in 1..n |-> "none"], then |-> "return", code |-> "none"]

InitLauncher ==
    /\ cfg = CHOOSE c \in Configs : TRUE
    /\ ClientAtRest
    /\ brk = Unused
    /\ timed = Unused /\ pure = Unused /\ pool = Unused
    /\ uow = Unused /\ hc = Unused /\ single = Unused /\ pg = Unused
    /\ \E n \in 0..MaxComponents, h \in 0..MaxHooks :
         lnch = At(NewLauncher(n, h), "init", 1)

\* c.OnInit() of the next component; an error goes to logger.Fatal, which exits
RunOnInit ==
    /\ lnch.pc = "init"
    /\ \E ok \in BOOLEAN :
         LET l == [lnch EXCEPT !.log = Append(@, Event("OnInit", lnch.i, ok))]
         IN lnch' = IF ok THEN At(l, "init", lnch.i + 1)
                    ELSE [l EXCEPT !.pc = "exited", !.i = 0, !.code = "exit 1"]
    /\ UNCHANGED <<client, brk, timed, pure, pool, uow, hc, single, pg>>

\* the next BeforeStart hook; an error goes to logger.Fatal, which exits
RunHook ==
    /\ lnch.pc = "hooks"
    /\ \E ok \in BOOLEAN :
         LET l == [lnch EXCEPT !.log = Append(@, Event("Hook", lnch.i, ok))]
         IN lnch' = IF ok THEN At(l, "hooks", lnch.i + 1)
                    ELSE [l EXCEPT !.pc = "exited", !.i = 0, !.code = "exit 1"]
    /\ UNCHANGED <<client, brk, timed, pure, pool, uow, hc, single, pg>>

\* faulty variant: an error of OnStart is logged and the loop goes on
RunOnStartGoesOn ==
    /\ lnch.pc = "start"
    /\ \E ok \in BOOLEAN :
         LET l == [lnch EXCEPT !.log = Append(@, Event("OnStart", lnch.i, ok))]
         IN lnch' = At(l, "start", lnch.i + 1)
    /\ UNCHANGED <<client, brk, timed, pure, pool, uow, hc, single, pg>>

\* c.OnStart() of the next component; on an error shutdown is run, then os.Exit(1)
RunOnStart ==
    /\ lnch.pc = "start"
    /\ \E ok \in BOOLEAN :
         LET l == [lnch EXCEPT !.log = Append(@, Event("OnStart", lnch.i, ok))]
         IN lnch' = IF ok THEN At(l, "start", lnch.i + 1)
                    ELSE Shutdown([l EXCEPT !.then = "exit 1"])
    /\ UNCHANGED <<client, brk, timed, pure, pool, uow, hc, single, pg>>

\* SIGINT or SIGTERM arrives.  Once signal.Notify has been called Run, which
\* waits on quit, enters shutdown.  Before that the signal has its default
\* action and ends the process: during the three loops, during the shutdown
\* that follows a failed OnStart, and between the end of the OnStart loop and
\* signal.Notify.  A signal that arrives during the shutdown entered from quit
\* stays in the channel and changes nothing.
Signal ==
    /\ \/ lnch.pc \in {"init", "hooks", "start", "wait"}
       \/ lnch.pc = "shutdown" /\ lnch.then = "exit 1"
    /\ \E notified \in BOOLEAN :
         LET received == lnch.pc = "wait" /\ notified
             l == [lnch EXCEPT !.log = Append(@, Event("Signal", 0, received))]
         IN lnch' = IF received
                    THEN IF l.n >= 1 THEN Shutdown(l)
                         ELSE [l EXCEPT !.pc = "exited", !.i = 0, !.code = "return"]
                    ELSE [l EXCEPT !.pc = "exited", !.i = 0, !.code = "killed"]
    /\ UNCHANGED <<client, brk, timed, pure, pool, uow, hc, single, pg>>

\* shutdown starts the goroutine that calls OnStop of the component of this iteration
StopInvoke ==
    /\ lnch.pc = "shutdown"
    /\ LET c == StopOrder(lnch.n, lnch.i) IN
       /\ lnch.stop[c] = "none"
       /\ lnch' = [lnch EXCEPT !.stop[c] = "running",
                               !.log = Append(@, Event("OnStop", c, TRUE))]
    /\ UNCHANGED <<client, brk, timed, pure, pool, uow, hc, single, pg>>

\* OnStop of component c returns and done is closed; shutdown goes on if it is
\* the one it waits for
StopReturn(c) ==
    /\ lnch.pc = "shutdown"
    /\ c \in 1..lnch.n
    /\ lnch.stop[c] = "running"
    /\ LET l == [lnch EXCEPT !.stop[c] = "returned",
                             !.log = Append(@, Event("OnStopReturn", c, TRUE))]
       IN lnch' = IF c = StopOrder(lnch.n, lnch.i) THEN Continue(l) ELSE l
    /\ UNCHANGED <<client, brk, timed, pure, pool, uow, hc, single, pg>>

\* faulty variant: after the timeout shutdown returns without stopping the rest
StopTimeoutGivesUp ==
    /\ lnch.pc = "shutdown"
    /\ LET c == StopOrder(lnch.n, lnch.i) IN
       /\ lnch.stop[c] = "running"
       /\ lnch' = [lnch EXCEPT !.log = Append(@, Event("Timeout", c, FALSE)),
                               !.pc = "exited", !.i = 0, !.code = lnch.then]
    /\ UNCHANGED <<client, brk, timed, pure, pool, uow, hc, single, pg>>

\* time.After(15 * time.Second) fires while OnStop of this iteration still runs
StopTimeout ==
    /\ lnch.pc = "shutdown"
    /\ LET c == StopOrder(lnch.n, lnch.i) IN
       /\ lnch.stop[c] = "running"
       /\ lnch' = Continue([lnch EXCEPT !.log = Append(@, Event("Timeout", c, FALSE))])
    /\ UNCHANGED <<client, brk, timed, pure, pool, uow, hc, single, pg>>

NextLauncher ==
    \/ RunOnInit
    \/ RunHook
    \/ RunOnStart
    \/ Signal
    \/ StopInvoke
    \/ \E c \in 1..MaxComponents : StopReturn(c)
    \/ StopTimeout

SpecLauncher == InitLauncher /\ [][NextLauncher]_vars

\* positions of the log holding an entry of operation op
Pos(op) == {p \in DOMAIN lnch.log : lnch.log[p].op = op}
\* positions of the log holding an entry of operation op on component or hook c
PosOf(op, c) == {p \in Pos(op) : lnch.log[p].idx = c}
\* the entries of operation op come in the order 1, 2, 3, ...
InOrder(op) ==
    \A p, q \in Pos(op) : p < q => lnch.log[p].idx < lnch.log[q].idx
\* every entry of operation a comes before every entry of operation b
AllBefore(a, b) == \A p \in Pos(a), q \in Pos(b) : p < q
\* the three start-up phases in their order
StartupOrder ==
    /\ InOrder("OnInit") /\ InOrder("Hook") /\ InOrder("OnStart")
    /\ AllBefore("OnInit", "Hook") /\ AllBefore("Hook", "OnStart")
    /\ AllBefore("OnInit", "OnStart")
    /\ Pos("Hook") # {} => \A c \in 1..lnch.n : PosOf("OnInit", c) # {}
    /\ Pos("OnStart") # {} => \A j \in 1..lnch.h : PosOf("Hook", j) # {}
    /\ Pos("OnStart") # {} => \A c \in 1..lnch.n : PosOf("OnInit", c) # {}
\* positions of the log where an OnStart returned an error
FailedStart == {p \in Pos("OnStart") : ~lnch.log[p].ok}

(* ---------------- C19 ---------------- *)
\* C19 as stated: every OnInit, in Append order, comes before any hook, every
\* hook before any OnStart, the OnStarts come in Append order, and no OnStop
\* is invoked before the termination signal has been received.
C19_PhasesThenSignal ==
    /\ StartupOrder
    /\ \A q \in Pos("OnStop") : \E p \in Pos("Signal") : p < q

\* C19: every OnInit, in Append order, comes before any hook, every hook
\* before any OnStart, the OnStarts come in Append order, and no OnStop is
\* invoked before the termination signal has been received or an OnStart has
\* returned an error.
C19_PhasesThenShutdown ==
    /\ StartupOrder
    /\ \A q \in Pos("OnStop") : \E p \in Pos("Signal") \cup FailedStart : p < q

\* two components and a hook have gone through all phases and a signal has
\* started the shutdown
C19_Witness ==
    /\ lnch.n >= 2 /\ lnch.h >= 1
    /\ Pos("Signal") # {} /\ Pos("OnStop") # {}
    /\ \A c \in 1..lnch.n : PosOf("OnStart", c) # {}

(* ---------------- C20 ---------------- *)
\* OnStop is invoked at most once on a component, and once on each when
\* shutdown has returned (it has not when a signal ended the process)
StoppedOnce ==
    /\ \A c \in 1..lnch.n : Cardinality(PosOf("OnStop", c)) <= 1
    /\ (lnch.pc = "exited" /\ lnch.code # "killed" /\ Pos("OnStop") # {}) =>
           \A c \in 1..lnch.n : Cardinality(PosOf("OnStop", c)) = 1

\* C20 as stated: OnStop is invoked exactly once on every component, and on
\* none before the OnStop of every component registered after it has returned.
C20_StopAfterLaterReturned ==
    /\ StoppedOnce
    /\ \A c \in 1..lnch.n : \A q \in PosOf("OnStop", c) :
         \A d \in (c + 1)..lnch.n : \E p \in PosOf("OnStopReturn", d) : p < q

\* C20: OnStop is invoked exactly once on every component, and on none before
\* the OnStop of every component registered after it has been invoked and has
\* either returned or run into the timeout shutdown waits for.
C20_StopAfterLaterReturnedOrTimedOut ==
    /\ StoppedOnce
    /\ \A c \in 1..lnch.n : \A q \in PosOf("OnStop", c) :
         \A d \in (c + 1)..lnch.n :
            /\ \E p \in PosOf("OnStop", d) : p < q
            /\ \E p \in PosOf("OnStopReturn", d) \cup PosOf("Timeout", d) : p < q

\* shutdown has returned after stopping two or more components, one of which
\* ran into the timeout
C20_Witness ==
    /\ lnch.pc = "exited" /\ lnch.n >= 2
    /\ \A c \in 1..lnch.n : PosOf("OnStop", c) # {}
    /\ Pos("Timeout") # {} /\ Pos("OnStopReturn") # {}

(* ======================================================================= *)
(* One UnitOfWork.Do of pkg/dbutil (pkg/pgutil has the same body): what    *)
(* the driver answers and what fn does are fixed when Do is entered.       *)
(* ======================================================================= *)
\* an error that is not an AppErr
RawErr(msg) == [kind |-> "raw", code |-> "", message |-> msg, cause |-> "nil"]

\* what the driver may answer to Begin, Commit and Rollback
DriverErrs == {"nil", "conn refused", "context canceled"}

\* what fn does: it returns nil or an error, or it panics with a value
FnOutcomes ==
    {[kind |-> "return", err |-> e, val |-> "nil"] :
        e \in {NilErr, NotFound("no existe"), InvalidInput("dato invalido"),
               RawErr("fn failed")}}
        \cup {[kind |-> "panic", err |-> NilErr, val |-> v] : v \in {"boom", "index out of range"}}

\* faulty variant: the error of Begin is handed back as it is
BeginFailedRaw(err) == RawErr(err)

\* Do's return when uow.client.Begin fails
BeginFailed(err) == WithError(Internal("error al iniciar transaccion"), err)

\* Do's return when tx.Commit fails
CommitFailed(err) == WithError(Internal("error al confirmar transaccion"), err)

\* faulty variant: Commit is tried whatever fn returned
GoesOnToCommitAlways(out) == out.kind = "return"

\* Do goes on to tx.Commit: fn returned, and returned nil
GoesOnToCommit(out) == out.kind = "return" /\ out.err.kind = "nil"

InitUow ==
    /\ cfg = CHOOSE c \in Configs : TRUE
    /\ ClientAtRest
    /\ brk = Unused
    /\ timed = Unused /\ pure = Unused /\ pool = Unused /\ lnch = Unused
    /\ hc = Unused /\ single = Unused /\ pg = Unused
    /\ \E b \in DriverErrs, f \in FnOutcomes, c \in DriverErrs, r \in DriverErrs :
         uow = [beginErr |-> b, fn |-> f, commitErr |-> c, rollbackErr |-> r,
                st |-> "entered", calls |-> << >>, ret |-> NotReturned,
                panic |-> "nil"]

\* tx, err := uow.client.Begin(ctx); on an error Do returns before the defer
UowBegin ==
    /\ uow.st = "entered"
    /\ LET u == [uow EXCEPT !.calls = Append(@, "Begin")]
       IN uow' = IF uow.beginErr # "nil"
                 THEN [u EXCEPT !.st = "returned", !.ret = BeginFailed(uow.beginErr)]
                 ELSE [u EXCEPT !.st = "begun"]
    /\ UNCHANGED <<client, brk, timed, pure, pool, lnch, hc, single, pg>>

\* fn(ctxWithTX) runs to its end
UowFn ==
    /\ uow.st = "begun"
    /\ LET u == [uow EXCEPT !.calls = Append(@, "fn")]
       IN uow' = IF GoesOnToCommit(uow.fn)
                 THEN [u EXCEPT !.st = "ran"]
                 ELSE IF uow.fn.kind = "panic"
                 THEN [u EXCEPT !.st = "unwinding", !.panic = uow.fn.val]
                 ELSE [u EXCEPT !.st = "unwinding", !.ret = uow.fn.err]
    /\ UNCHANGED <<client, brk, timed, pure, pool, lnch, hc, single, pg>>

\* tx.Commit(ctx)
UowCommit ==
    /\ uow.st = "ran"
    /\ LET u == [uow EXCEPT !.calls = Append(@, "Commit"), !.st = "unwinding"]
       IN uow' = IF uow.commitErr # "nil"
                 THEN [u EXCEPT !.ret = CommitFailed(uow.commitErr)]
                 ELSE [u EXCEPT !.ret = NilErr]
    /\ UNCHANGED <<client, brk, timed, pure, pool, lnch, hc, single, pg>>

\* faulty variant: the transaction is rolled back only when Commit was not reached
UowDeferredUnlessCommitted ==
    /\ uow.st = "unwinding"
    /\ LET u == IF \E i \in DOMAIN uow.calls : uow.calls[i] = "Commit"
                THEN uow
                ELSE [uow EXCEPT !.calls = Append(@, "Rollback")]
       IN uow' = IF uow.panic # "nil"
                 THEN [u EXCEPT !.st = "panicked"]
                 ELSE [u EXCEPT !.st = "returned"]
    /\ UNCHANGED <<client, brk, timed, pure, pool, lnch, hc, single, pg>>

\* the deferred function: tx.Rollback(ctx), its error dropped; a recovered
\* panic is raised again, otherwise Do returns
UowDeferred ==
    /\ uow.st = "unwinding"
    /\ LET u == [uow EXCEPT !.calls = Append(@, "Rollback")]
       IN uow' = IF uow.panic # "nil"
                 THEN [u EXCEPT !.st = "panicked"]
                 ELSE [u EXCEPT !.st = "returned"]
    /\ UNCHANGED <<client, brk, timed, pure, pool, lnch, hc, single, pg>>

NextUow == UowBegin \/ UowFn \/ UowCommit \/ UowDeferred

SpecUow == InitUow /\ [][NextUow]_vars

\* the calls Do has made
Called(op) == \E i \in DOMAIN uow.calls : uow.calls[i] = op
\* Do is over: it has returned or let a panic through
UowOver == uow.st \in {"returned", "panicked"}
\* fn returned nil
FnSucceeded == uow.fn.kind = "return" /\ uow.fn.err.kind = "nil"

(* ---------------- C21 ---------------- *)
\* C21: Commit is invoked exactly when fn has returned nil; when fn returns an
\* error or panics Commit is never invoked, Rollback is invoked, and the caller
\* gets fn's own error or the same panic again.
C21_CommitIffFnSucceeds ==
    /\ Called("Commit") => (Called("fn") /\ FnSucceeded)
    /\ (UowOver /\ Called("fn")) =>
          /\ Called("Commit") <=> FnSucceeded
          /\ ~FnSucceeded =>
                /\ Called("Rollback")
                /\ uow.fn.kind = "return" => (uow.st = "returned" /\ uow.ret = uow.fn.err)
                /\ uow.fn.kind = "panic" => (uow.st = "panicked" /\ uow.panic = uow.fn.val)

\* Do is over after an fn that panicked
C21_Witness ==
    /\ uow.st = "panicked" /\ uow.fn.kind = "panic"
    /\ uow.calls = <<"Begin", "fn", "Rollback">>

(* ---------------- C22 ---------------- *)
\* C22: when Begin fails Do returns an INTERNAL_ERROR AppErr wrapping the
\* cause and neither fn nor Commit nor Rollback is invoked; when Commit fails
\* Do returns an INTERNAL_ERROR AppErr although fn returned nil.
C22_BeginAndCommitFailures ==
    /\ (UowOver /\ uow.beginErr # "nil") =>
          /\ uow.st = "returned"
          /\ uow.ret.kind = "AppErr" /\ uow.ret.code = ErrInternal
          /\ uow.ret.cause = uow.beginErr
          /\ uow.calls = <<"Begin">>
    /\ (UowOver /\ Called("Commit") /\ uow.commitErr # "nil") =>
          /\ FnSucceeded
          /\ uow.st = "returned"
          /\ uow.ret.kind = "AppErr" /\ uow.ret.code = ErrInternal
          /\ uow.ret.cause = uow.commitErr

\* Do has returned after a Begin that failed
C22_Witness ==
    /\ uow.st = "returned" /\ uow.beginErr # "nil"
    /\ uow.ret.message = "error al iniciar transaccion"

(* ======================================================================= *)
(* One handler.HealthCheck of pkg/health: every registered check runs in   *)
(* its own goroutine and reports on resChan; the handler collects as many  *)
(* results as there are checks and answers.                                *)
(* ======================================================================= *)
MaxChecks == 3

LevelCritical == 0
LevelDegraded == 1
StatusOK == 200
StatusServiceUnavailable == 503

\* the registered checks: a priority each, whether HealthCheck(ctx) errs, and
\* when it returns: by itself, once ctx is done (with ctx's error), or never
Checkables ==
    {chk \in [priority : {LevelCritical, LevelDegraded}, fails : BOOLEAN,
              returns : {"itself", "cancelled", "never"}] :
        /\ chk.returns = "cancelled" => chk.fails
        /\ chk.returns = "never" => ~chk.fails}
CheckLists == UNION {[1..n -> Checkables] : n \in 0..MaxChecks}

\* the status a check's goroutine reports
ComponentStatus(chk) ==
    IF ~chk.fails THEN "UP"
    ELSE IF chk.priority = LevelDegraded THEN "DEGRADED" ELSE "DOWN"

\* faulty variant: the result collected last decides
FoldLast(acc, status) ==
    IF status = "DOWN"
    THEN [overallStatus |-> "DOWN", httpStatus |-> StatusServiceUnavailable]
    ELSE [overallStatus |-> status, httpStatus |-> StatusOK]

\* the body of the collecting loop for one result
Fold(acc, status) ==
    IF status = "DOWN"
    THEN [overallStatus |-> "DOWN", httpStatus |-> StatusServiceUnavailable]
    ELSE IF status = "DEGRADED" /\ acc.overallStatus = "UP"
    THEN [acc EXCEPT !.overallStatus = "DEGRADED"]
    ELSE acc

InitHealth ==
    /\ cfg = CHOOSE c \in Configs : TRUE
    /\ ClientAtRest
    /\ brk = Unused
    /\ timed = Unused /\ pure = Unused /\ pool = Unused /\ lnch = Unused
    /\ uow = Unused /\ single = Unused /\ pg = Unused
    /\ \E cs \in CheckLists :
         hc = [checks |-> cs, reported |-> {}, resChan |-> << >>,
               components |-> << >>, collected |-> 0, ctxDone |-> FALSE,
               acc |-> [overallStatus |-> "UP", httpStatus |-> StatusOK],
               st |-> "collecting", response |-> [code |-> 0, status |-> ""]]

\* the 5 seconds of context.WithTimeout elapse while the handler collects
Deadline ==
    /\ hc.st = "collecting"
    /\ ~hc.ctxDone
    /\ hc' = [hc EXCEPT !.ctxDone = TRUE]
    /\ UNCHANGED <<client, brk, timed, pure, pool, lnch, uow, single, pg>>

\* the goroutine of check i: chk.HealthCheck(ctx) returns, then the send on
\* resChan, which has room for every check
Report(i) ==
    /\ hc.st # "unused"
    /\ i \in DOMAIN hc.checks /\ i \notin hc.reported
    /\ \/ hc.checks[i].returns = "itself"
       \/ hc.checks[i].returns = "cancelled" /\ hc.ctxDone
    /\ hc' = [hc EXCEPT !.reported = @ \cup {i},
                        !.resChan = Append(@, [name |-> i,
                                               status |-> ComponentStatus(hc.checks[i])])]
    /\ UNCHANGED <<client, brk, timed, pure, pool, lnch, uow, single, pg>>

\* res := <-resChan and the loop body
Collect ==
    /\ hc.st = "collecting"
    /\ hc.collected < Len(hc.checks)
    /\ hc.resChan # << >>
    /\ LET res == Head(hc.resChan)
       IN hc' = [hc EXCEPT !.resChan = Tail(@),
                           !.collected = @ + 1,
                           !.components = Append(@, res),
                           !.acc = Fold(@, res.status)]
    /\ UNCHANGED <<client, brk, timed, pure, pool, lnch, uow, single, pg>>

\* c.JSON(httpStatus, Response{Status: overallStatus, ...})
Respond ==
    /\ hc.st = "collecting"
    /\ hc.collected = Len(hc.checks)
    /\ hc' = [hc EXCEPT !.st = "responded",
                        !.response = [code |-> hc.acc.httpStatus,
                                      status |-> hc.acc.overallStatus]]
    /\ UNCHANGED <<client, brk, timed, pure, pool, lnch, uow, single, pg>>

NextHealth ==
    (\E i \in 1..MaxChecks : Report(i)) \/ Collect \/ Respond \/ Deadline

SpecHealth == InitHealth /\ [][NextHealth]_vars

\* some check of the given priority failed
SomeFailed(level) ==
    \E i \in DOMAIN hc.checks : hc.checks[i].fails /\ hc.checks[i].priority = level

(* ---------------- C23 ---------------- *)
\* C23: whatever the order in which the checks report, the answer is DOWN
\* with 503 exactly when some critical check failed, otherwise DEGRADED with
\* 200 exactly when some degraded-level check failed, otherwise UP with 200.
C23_OverallFromOutcomes ==
    hc.st = "responded" =>
        hc.response =
            IF SomeFailed(LevelCritical)
            THEN [code |-> StatusServiceUnavailable, status |-> "DOWN"]
            ELSE IF SomeFailed(LevelDegraded)
            THEN [code |-> StatusOK, status |-> "DEGRADED"]
            ELSE [code |-> StatusOK, status |-> "UP"]

\* the answer to a request whose critical failure was collected before a
\* degraded one and a healthy one
C23_Witness ==
    /\ hc.st = "responded"
    /\ Len(hc.components) >= 3
    /\ hc.components[1].status = "DOWN"
    /\ \E i \in 2..Len(hc.components) : hc.components[i].status = "DEGRADED"
    /\ \E i \in 2..Len(hc.components) : hc.components[i].status = "UP"
    /\ hc.components[1].name # 1

(* ======================================================================= *)
(* The constructors guarded by a sync.Once: httputil.GetClient,            *)
(* worker.GetWorker and pgutil.GetPostgresClient, called by several        *)
(* goroutines, each with its own logger and configuration.                 *)
(* ======================================================================= *)
NumGoroutines == 2
Goroutines == 1..NumGoroutines

Constructors == {"GetClient", "GetWorker", "GetPostgresClient"}
Loggers == {"loggerA", "loggerB"}
\* the cfg a caller may pass: nil or a Config
CfgArgs(ctor) == {"nil", "cfgA", "cfgB"}
NoInstance == [id |-> 0, logger |-> "", cfg |-> ""]

\* the value the function passed to once.Do stores in the package variable
Construct(ctor, arg, n) ==
    [id |-> n, logger |-> arg.logger,
     cfg |-> IF ctor = "GetClient" /\ arg.cfg = "nil" THEN "DefaultConfig()" ELSE arg.cfg]

\* GetWorker reads cfg.BufferSize inside the function: a nil cfg panics there
ConstructPanics(ctor, arg) == ctor = "GetWorker" /\ arg.cfg = "nil"

\* sync.Once runs the function while its done flag is unset
OnceRuns(done) == ~done

InitOnce ==
    /\ cfg = CHOOSE c \in Configs : TRUE
    /\ ClientAtRest
    /\ brk = Unused
    /\ timed = Unused /\ pure = Unused /\ pool = Unused /\ lnch = Unused
    /\ uow = Unused /\ hc = Unused /\ pg = Unused
    /\ \E ctor \in Constructors :
         \E as \in [Goroutines -> [logger : Loggers, cfg : CfgArgs(ctor)]] :
           single = [st |-> "live", ctor |-> ctor, args |-> as,
                     pc |-> [g \in Goroutines |-> "idle"],
                     done |-> FALSE,
                     instance |-> NoInstance, built |-> 0, builder |-> 0,
                     got |-> [g \in Goroutines |-> NoInstance]]

\* the call and the fast path of once.Do: the done flag is read
OnceEnter(g) ==
    /\ single.st = "live" /\ g \in Goroutines
    /\ single.pc[g] = "idle"
    /\ single' = [single EXCEPT !.pc[g] = IF OnceRuns(single.done) THEN "slow" ELSE "return"]
    /\ UNCHANGED <<client, brk, timed, pure, pool, lnch, uow, hc, pg>>

\* the slow path, one goroutine at a time under the mutex: the flag is read again and the function
\* run, which stores the instance; the flag is set and the mutex released.  When the function
\* panics the deferred calls of sync.Once set the flag and release the mutex all the same, nothing
\* is stored, and the panic goes on into the caller
OnceSlow(g) ==
    /\ single.st = "live" /\ g \in Goroutines
    /\ single.pc[g] = "slow"
    /\ single' = IF OnceRuns(single.done) /\ ConstructPanics(single.ctor, single.args[g])
                 THEN [single EXCEPT !.pc[g] = "panicked",
                                     !.done = TRUE,
                                     !.builder = g]
                 ELSE IF OnceRuns(single.done)
                 THEN [single EXCEPT !.pc[g] = "return",
                                     !.done = TRUE,
                                     !.built = @ + 1,
                                     !.builder = g,
                                     !.instance = Construct(single.ctor, single.args[g],
                                                            single.built + 1)]
                 ELSE [single EXCEPT !.pc[g] = "return"]
    /\ UNCHANGED <<client, brk, timed, pure, pool, lnch, uow, hc, pg>>

\* return clientInstance
OnceReturn(g) ==
    /\ single.st = "live" /\ g \in Goroutines
    /\ single.pc[g] = "return"
    /\ single' = [single EXCEPT !.pc[g] = "returned", !.got[g] = single.instance]
    /\ UNCHANGED <<client, brk, timed, pure, pool, lnch, uow, hc, pg>>

NextOnce ==
    \/ \E g \in 1..NumGoroutines : OnceEnter(g)
    \/ \E g \in 1..NumGoroutines : OnceSlow(g)
    \/ \E g \in 1..NumGoroutines : OnceReturn(g)

SpecOnce == InitOnce /\ [][NextOnce]_vars

\* the goroutines whose call has returned
OnceReturned == {g \in Goroutines : single.pc[g] = "returned"}

(* ---------------- C24 ---------------- *)
\* C24: every call of a constructor, alone or together with others and with
\* whatever arguments, returns the one instance, which was built once, from
\* the arguments of the call that came first; the arguments of every other
\* call have no effect.
C24_Singleton ==
    /\ single.built <= 1
    /\ \A g \in OnceReturned :
          /\ single.built = 1
          /\ single.pc[single.builder] # "idle"
          /\ single.got[g] = Construct(single.ctor, single.args[single.builder], 1)
          /\ \A h \in OnceReturned : single.got[h] = single.got[g]

(* ======================================================================= *)
(* The pgComponent of pkg/pgutil over its life: OnInit, OnStart, OnStop    *)
(* and the operations of dbutil.Provider and dbutil.Executor, called in    *)
(* any order.  Ping, Exec, Query, QueryRow and Begin hold no lock while    *)
(* the driver works: one such call may be in flight while the life-cycle   *)
(* operations run.  OnStop holds the write lock while pool.Close() waits:  *)
(* c.pool is then a closed pool, not yet nil, and the operations that take *)
(* no lock go on using it.                                                  *)
(* ======================================================================= *)
MaxOps == 4

\* errPoolNotInitialized, and the AppErr getInternalPool returns
ErrPoolNotInitialized == RawErr("el pool de postgres no esta inicializado")
ErrNoInternalPool == Internal("pool de base de datos no inicializado")
\* a method of *pgxpool.Pool called through a nil pointer
NilDereference == [kind |-> "panic", code |-> "", message |-> "nil pointer dereference", cause |-> "nil"]
\* what a live pool may answer
DriverAnswers == {NilErr, RawErr("driver error")}
\* what a pool answers that was closed while the call was in flight: Close
\* waits for a connection that is in use, and refuses a later Acquire
ErrClosedPool == RawErr("closed pool")
ClosedAnswers == DriverAnswers \cup {ErrClosedPool}
\* no call of the driver is in flight
NoCall == [op |-> "none", held |-> "none"]

\* the operations that use c.pool as it is
Unguarded == {"Exec", "Query", "QueryRow", "Begin"}
PgOps == {"OnStart", "Ping"} \cup Unguarded

InitPg ==
    /\ cfg = CHOOSE c \in Configs : TRUE
    /\ ClientAtRest
    /\ brk = Unused
    /\ timed = Unused /\ pure = Unused /\ pool = Unused /\ lnch = Unused
    /\ uow = Unused /\ hc = Unused /\ single = Unused
    /\ pg = [st |-> "live", pool |-> "nil", initOnce |-> FALSE, stopped |-> FALSE,
             n |-> 0, op |-> "", poolWas |-> "", ret |-> NotReturned,
             call |-> NoCall]

\* OnInit: under clientInitOnce the pool is created and stored, or the error
\* of getPoolConfig or pgxpool.NewWithConfig is returned; a later OnInit does
\* nothing and returns nil
PgOnInit ==
    /\ pg.st = "live" /\ pg.n < MaxOps
    /\ \E initErr \in DriverAnswers :
         pg' = IF pg.initOnce
               THEN [pg EXCEPT !.n = @ + 1, !.op = "OnInit", !.poolWas = pg.pool,
                               !.ret = NilErr]
               ELSE [pg EXCEPT !.n = @ + 1, !.op = "OnInit", !.poolWas = pg.pool,
                               !.initOnce = TRUE,
                               !.pool = IF initErr = NilErr THEN "open" ELSE @,
                               !.ret = initErr]
    /\ UNCHANGED <<client, brk, timed, pure, pool, lnch, uow, hc, single>>

\* OnStart: under the read lock, which an OnStop inside Close keeps it from
\* taking, errPoolNotInitialized on a nil pool, otherwise c.pool.Ping
PgOnStart ==
    /\ pg.st = "live" /\ pg.n < MaxOps
    /\ pg.pool # "closed"
    /\ \E answer \in DriverAnswers :
         pg' = [pg EXCEPT !.n = @ + 1, !.op = "OnStart", !.poolWas = pg.pool,
                          !.ret = IF pg.pool = "nil" THEN ErrPoolNotInitialized
                                  ELSE answer]
    /\ UNCHANGED <<client, brk, timed, pure, pool, lnch, uow, hc, single>>

\* OnStop up to the call of c.pool.Close(): under the write lock, nil is
\* returned at once when there is no pool; otherwise Close is called, which
\* refuses new work from now on and waits for the connections in use
PgOnStop ==
    /\ pg.st = "live" /\ pg.n < MaxOps
    /\ pg.pool # "closed"
    /\ pg' = IF pg.pool = "nil"
             THEN [pg EXCEPT !.n = @ + 1, !.op = "OnStop", !.poolWas = pg.pool,
                             !.ret = NilErr]
             ELSE [pg EXCEPT !.n = @ + 1, !.pool = "closed", !.stopped = TRUE,
                             !.call.held = IF @ = "open" THEN "closing" ELSE @]
    /\ UNCHANGED <<client, brk, timed, pure, pool, lnch, uow, hc, single>>

\* c.pool.Close() returns: c.pool = nil, the lock is released and OnStop
\* returns nil
PgStopReturn ==
    /\ pg.st = "live"
    /\ pg.pool = "closed"
    /\ pg' = [pg EXCEPT !.op = "OnStop", !.poolWas = "open", !.pool = "nil",
                        !.ret = NilErr]
    /\ UNCHANGED <<client, brk, timed, pure, pool, lnch, uow, hc, single>>

\* Ping up to the return of getInternalPool: under the read lock c.pool is
\* read; nil is answered with the error, otherwise the lock is released and
\* pool.Ping is called on the pool that was read
PgPing ==
    /\ pg.st = "live" /\ pg.n < MaxOps
    /\ pg.call = NoCall
    /\ pg.pool # "closed"
    /\ pg' = IF pg.pool = "nil"
             THEN [pg EXCEPT !.n = @ + 1, !.op = "Ping", !.poolWas = pg.pool,
                             !.ret = ErrNoInternalPool]
             ELSE [pg EXCEPT !.n = @ + 1,
                             !.call = [op |-> "Ping", held |-> "open"]]
    /\ UNCHANGED <<client, brk, timed, pure, pool, lnch, uow, hc, single>>

\* the call of the driver that is in flight returns: what a live pool
\* answers, or that of a pool closed meanwhile, or, when the pool was closed
\* already when the call was made, the refusal
PgReturn ==
    /\ pg.st = "live"
    /\ pg.call # NoCall
    /\ \E answer \in ClosedAnswers :
         /\ pg.call.held = "open" => answer \in DriverAnswers
         /\ pg.call.held = "closed" => answer = ErrClosedPool
         /\ pg' = [pg EXCEPT !.op = pg.call.op,
                             !.poolWas = IF pg.call.held = "closed" THEN "closed"
                                         ELSE "open",
                             !.ret = answer, !.call = NoCall]
    /\ UNCHANGED <<client, brk, timed, pure, pool, lnch, uow, hc, single>>

\* Exec, Query, QueryRow and Begin: c.pool.Exec(...) and the like, on whatever
\* c.pool holds, read without the lock; through a nil pointer the call panics
\* and the process ends, otherwise the driver is called
PgUse(op) ==
    /\ pg.st = "live" /\ pg.n < MaxOps
    /\ op \in Unguarded
    /\ pg.call = NoCall
    /\ pg' = IF pg.pool = "nil"
             THEN [pg EXCEPT !.n = @ + 1, !.op = op, !.poolWas = pg.pool,
                             !.st = "crashed", !.ret = NilDereference]
             ELSE [pg EXCEPT !.n = @ + 1,
                             !.call = [op |-> op, held |-> pg.pool]]
    /\ UNCHANGED <<client, brk, timed, pure, pool, lnch, uow, hc, single>>

NextPg ==
    \/ PgOnInit \/ PgOnStart \/ PgOnStop \/ PgStopReturn \/ PgPing \/ PgReturn
    \/ \E op \in Unguarded : PgUse(op)

SpecPg == InitPg /\ [][NextPg]_vars

(* ---------------- C25 ---------------- *)
\* C25: an operation called while the component has no pool, before OnInit or
\* after OnStop, returns a pool-not-initialized error.
C25_NotInitializedError ==
    (pg.st # "unused" /\ pg.op \in PgOps /\ pg.poolWas = "nil") =>
        pg.ret \in {ErrPoolNotInitialized, ErrNoInternalPool}

(* ======================================================================= *)
(* rbac.Guard of pkg/mw applied to one request: what the context carries,  *)
(* what the provider answers and the bit the route requires are arguments. *)
(* A mask is the set of the positions of its set bits, 63 being the sign   *)
(* bit of the int64.                                                       *)
(* ======================================================================= *)
BitPositions == {0, 1, 62, 63}
Masks == SUBSET BitPositions
RequiredBits == {-1, 0, 1, 62, 63, 64}

\* faulty variant: the bit is looked up whatever its position
HasPermissionAnyBit(mask, bit) == bit \in mask

\* Identity.HasPermission: (mask & (1 << uint(bit))) != 0 for a bit in 0..62
HasPermission(mask, bit) ==
    IF bit < 0 \/ bit >= 63 THEN FALSE ELSE bit \in mask

\* the handler Guard(requiredBit)(next) run on a request: what it returns and
\* whether next was called
Guard(hasIdentity, resolveFails, mask, requiredBit) ==
    IF ~hasIdentity THEN [next |-> FALSE, err |-> "echo.ErrUnauthorized"]
    ELSE IF resolveFails THEN [next |-> FALSE, err |-> "echo.ErrForbidden"]
    ELSE IF ~HasPermission(mask, requiredBit)
    THEN [next |-> FALSE, err |-> "echo.ErrForbidden"]
    ELSE [next |-> TRUE, err |-> "next(c)"]

InitGuard ==
    /\ cfg = CHOOSE c \in Configs : TRUE
    /\ ClientAtRest
    /\ brk = Unused
    /\ timed = Unused /\ pool = Unused /\ lnch = Unused
    /\ uow = Unused /\ hc = Unused /\ single = Unused /\ pg = Unused
    /\ \E id \in BOOLEAN, f \in BOOLEAN, m \in Masks, b \in RequiredBits :
         pure = [st |-> "request", hasIdentity |-> id, resolveFails |-> f,
                 mask |-> m, requiredBit |-> b,
                 out |-> [next |-> FALSE, err |-> ""]]

\* the request goes through the middleware
ApplyGuard ==
    /\ pure.st = "request"
    /\ pure' = [pure EXCEPT !.st = "guarded",
                            !.out = Guard(pure.hasIdentity, pure.resolveFails,
                                          pure.mask, pure.requiredBit)]
    /\ UNCHANGED <<client, brk, timed, pool, lnch, uow, hc, single, pg>>

NextGuard == ApplyGuard

SpecGuard == InitGuard /\ [][NextGuard]_vars

(* ---------------- C26 ---------------- *)
\* C26: the handler is invoked exactly when the context carries an Identity,
\* ResolveMask succeeds, the required bit lies in 0..62 and is set in the
\* mask; the request is answered Unauthorized when the Identity is missing
\* and Forbidden in every other case of denial.
C26_GuardDecision ==
    pure.st = "guarded" =>
        LET granted == /\ pure.hasIdentity
                       /\ ~pure.resolveFails
                       /\ pure.requiredBit \in 0..62
                       /\ pure.requiredBit \in pure.mask
        IN /\ pure.out.next <=> granted
           /\ ~granted =>
                pure.out.err = IF ~pure.hasIdentity THEN "echo.ErrUnauthorized"
                               ELSE "echo.ErrForbidden"

\* a request asking for bit 63 with the sign bit of the mask set was denied
C26_Witness ==
    /\ pure.st = "guarded"
    /\ pure.hasIdentity /\ ~pure.resolveFails
    /\ pure.requiredBit = 63 /\ 63 \in pure.mask
    /\ pure.out = [next |-> FALSE, err |-> "echo.ErrForbidden"]

(* ======================================================================= *)
(* Further properties of the shared client: the breaker's transitions and  *)
(* the callers that share it.  They are stated over Spec.                  *)
(* ======================================================================= *)
\* a call of the breaker's current generation ends in this step
FinishesCurrent(c) == Finishes(c) /\ gen[c] = cb.generation

(* ---------------- C27 ---------------- *)
\* C27: the breaker starts Closed and its state changes only from Closed to
\* Open when a failure brings the counter to the threshold, from Open to
\* HalfOpen when a Do enters or leaves the breaker after the open-duration
\* has elapsed, from HalfOpen to Closed when the trial succeeds and from
\* HalfOpen to Open when the trial fails.
C27_TransitionsOnly ==
    /\ cb.state = "closed"
    /\ [][ cb'.state # cb.state =>
             \/ /\ cb.state = "closed" /\ cb'.state = "open"
                /\ \E c \in Callers : FinishesCurrent(c) /\ FinishFailed
                /\ cb.cf + 1 >= cfg.CBThreshold
             \/ /\ cb.state = "open" /\ cb'.state = "half-open"
                /\ cb.expiry < now
                /\ \E c \in Callers : Admitted(c) \/ Finishes(c)
             \/ /\ cb.state = "half-open" /\ cb'.state = "closed"
                /\ \E c \in Callers : FinishesCurrent(c) /\ ~FinishFailed
             \/ /\ cb.state = "half-open" /\ cb'.state = "open"
                /\ \E c \in Callers : FinishesCurrent(c) /\ FinishFailed ]_vars

\* the breaker is Closed again after it opened and its trial succeeded
C27_Witness ==
    /\ cb.state = "closed" /\ cb.generation = 4
    /\ ret.err = NilErr /\ ret.tries > 0

(* ---------------- C28 ---------------- *)
\* C28 as stated: while the breaker is Closed every call that ends in failure
\* adds 1 to the counter, the breaker opening when the threshold is reached,
\* and every call that ends in success sets the counter to 0.
C28_EveryCompletionCounts ==
    [][ \A c \in Callers :
          (Finishes(c) /\ cb.state = "closed") =>
             IF FinishFailed
             THEN IF cb.cf + 1 >= cfg.CBThreshold
                  THEN cb'.state = "open"
                  ELSE cb'.state = "closed" /\ cb'.cf = cb.cf + 1
             ELSE cb'.state = "closed" /\ cb'.cf = 0 ]_vars

\* C28: while the breaker is Closed every call of the current generation
\* that ends in failure adds 1 to the counter, whatever other calls are in
\* flight, the breaker opening when the threshold is reached, and every such
\* call that ends in success sets the counter to 0; a call admitted before
\* the breaker last changed state leaves the breaker as it is.
C28_NoLostUpdate ==
    [][ \A c \in Callers :
          (Finishes(c) /\ cb.state = "closed") =>
             IF gen[c] # cb.generation THEN cb' = cb
             ELSE IF FinishFailed
             THEN IF cb.cf + 1 >= cfg.CBThreshold
                  THEN cb'.state = "open"
                  ELSE cb'.state = "closed" /\ cb'.cf = cb.cf + 1
             ELSE cb'.state = "closed" /\ cb'.cf = 0 ]_vars

\* a failure has been counted while another call of the same generation,
\* itself past a failed invocation, is still in flight
C28_Witness ==
    /\ cb.state = "closed" /\ cb.cf = 1
    /\ IsFailure(ret.last) /\ ret.tries > 0
    /\ \E c \in CurrentGen : tries[c] > 0 /\ IsFailure(last[c])

(* ---------------- C29 ---------------- *)
\* C29: while the breaker is Closed a caller that enters Do is admitted
\* whatever the other callers are doing, and a call in flight can make its
\* next invocation and return whatever the others are doing; two calls can
\* be in the transport at once.
C29_NoSerialization ==
    \A c \in Callers :
        /\ (phase[c] = "idle" /\ cb.state = "closed")
              => ENABLED (Begin(c) /\ Admitted(c))
        /\ (InFlight(c) /\ tries[c] < AttemptCap)
              => ENABLED (Attempt(c) /\ Finishes(c))

\* both callers are between two invocations while the breaker is Closed
C29_Witness ==
    /\ cb.state = "closed"
    /\ \A c \in Callers : InFlight(c) /\ tries[c] > 0

(* ---------------- C30 ---------------- *)
\* C30: the breaker is asked when Do is entered and told when Do returns, not
\* at the invocations in between: an invocation after which the call goes on
\* leaves the breaker as it is, and a call that was admitted returns the
\* outcome of its own invocations, also when the breaker is Open by then.
C30_ConsultedOncePerDo ==
    [][ \A c \in Callers :
          InFlight(c) =>
             /\ (InFlight(c)' /\ tries'[c] # tries[c]) => cb' = cb
             /\ Finishes(c) =>
                   /\ ret'.tries = tries[c] + 1
                   /\ ret'.err # CircuitOpenErr ]_vars

\* a call has returned a success after two invocations and found the breaker
\* Open, its open-duration still running
C30_Witness ==
    /\ StillOpen
    /\ ret.err = NilErr /\ ret.tries >= 2

(* ---------------- C31 ---------------- *)
\* C31 as stated: a Do that returns after a response with a status below 500
\* leaves the consecutive-failure counter at 0 and, when it is the HalfOpen
\* trial, closes the breaker.
C31_Below500AlwaysResets ==
    [][ \A c \in Callers :
          (Finishes(c) /\ ret'.last # NoResp /\ ret'.last < 500) =>
             /\ cb'.cf = 0
             /\ (cb.state = "half-open" /\ gen[c] = cb.generation)
                   => cb'.state = "closed" ]_vars

\* C31: a Do of the breaker's current generation that returns after a
\* response with a status below 500, a 4xx included, is recorded as a
\* success: the counter is 0 afterwards and the breaker is Closed, also when
\* the call was the HalfOpen trial; a Do admitted before the breaker last
\* changed state leaves the counter as it is.
C31_Below500IsSuccess ==
    [][ \A c \in Callers :
          (Finishes(c) /\ ret'.last # NoResp /\ ret'.last < 500) =>
             IF gen[c] = cb.generation
             THEN cb'.cf = 0 /\ cb'.state = "closed"
             ELSE cb'.cf = cb.cf ]_vars

\* the trial that closed the breaker ended with a 404
C31_Witness ==
    /\ cb.state = "closed" /\ cb.generation = 4 /\ cb.cf = 0
    /\ ret.last = 404 /\ ret.tries = 1

(* ---------------- C32 ---------------- *)
\* C32: with MaxRetries = 0 a Do makes exactly one transport invocation: no
\* call is in flight after an invocation, and a Do that returned after a
\* retryable failure made one invocation.
C32_ZeroRetriesOneInvocation ==
    cfg.MaxRetries = 0 =>
        /\ \A c \in Callers : tries[c] = 0
        /\ (Returned /\ ~Rejected /\ IsFailure(ret.last)) => ret.tries = 1

(* ======================================================================= *)
(* The breaker GetClient builds, followed through beforeRequest and        *)
(* afterRequest together with the calls of Settings.OnStateChange, which   *)
(* gobreaker makes from setState when the state changes.  events holds the *)
(* warnings logged by the latest step.                                     *)
(* ======================================================================= *)
\* faulty variant: the states are logged the wrong way round
OnStateChangeSwapped(from, to) ==
    [level |-> "WARN", msg |-> "httputil: cambio de estado del circuit breaker",
     name |-> "http-client", from |-> to, to |-> from]

\* Settings.OnStateChange: one logger.Warn with the name and the two states
OnStateChange(from, to) ==
    [level |-> "WARN", msg |-> "httputil: cambio de estado del circuit breaker",
     name |-> "http-client", from |-> from, to |-> to]

\* the callbacks setState(s) makes on breaker b
setStateCalls(b, s) ==
    IF b.state = s THEN << >> ELSE <<OnStateChange(b.state, s)>>

\* the callbacks made inside currentState
currentStateCalls(b, t) ==
    IF b.state = "open" /\ b.expiry < t THEN setStateCalls(b, "half-open") ELSE << >>

\* the callbacks made inside onSuccess and onFailure
onSuccessCalls(b) ==
    IF b.state = "half-open" /\ Min(b.cs + 1, maxRequests) >= maxRequests
    THEN setStateCalls(b, "closed") ELSE << >>

onFailureCalls(b) ==
    CASE b.state = "closed" ->
            IF ReadyToTrip([b EXCEPT !.cf = @ + 1]) THEN setStateCalls(b, "open") ELSE << >>
      [] b.state = "half-open" -> setStateCalls(b, "open")
      [] OTHER -> << >>

\* the callbacks made inside afterRequest
afterRequestCalls(b, before, success, t) ==
    LET b1 == currentState(b, t) IN
    currentStateCalls(b, t) \o
        (IF b1.generation # before THEN << >>
         ELSE IF success THEN onSuccessCalls(b1) ELSE onFailureCalls(b1))

InitLog ==
    /\ cfg \in Configs
    /\ ClientAtRest
    /\ timed = Unused /\ pure = Unused /\ pool = Unused /\ lnch = Unused
    /\ uow = Unused /\ hc = Unused /\ single = Unused /\ pg = Unused
    /\ brk = [st |-> "live", b |-> NewCircuitBreaker, t |-> 1,
              held |-> [c \in Callers |-> 0], was |-> "closed", events |-> << >>]

\* time passes
LogTick ==
    /\ brk.st = "live" /\ brk.t < MaxTime
    /\ brk' = [brk EXCEPT !.t = @ + 1, !.was = brk.b.state, !.events = << >>]
    /\ UNCHANGED <<client, timed, pure, pool, lnch, uow, hc, single, pg>>

\* cb.Execute of caller c, first half: beforeRequest
LogBefore(c) ==
    /\ brk.st = "live" /\ brk.held[c] = 0
    /\ LET r == beforeRequest(brk.b, brk.t) IN
       brk' = [brk EXCEPT !.b = r.cb,
                          !.held[c] = IF r.err = "nil" THEN r.generation ELSE 0,
                          !.was = brk.b.state,
                          !.events = currentStateCalls(brk.b, brk.t)]
    /\ UNCHANGED <<client, timed, pure, pool, lnch, uow, hc, single, pg>>

\* cb.Execute of caller c, second half: afterRequest with the outcome of req
LogAfter(c) ==
    /\ brk.st = "live" /\ brk.held[c] # 0
    /\ \E success \in BOOLEAN :
         brk' = [brk EXCEPT !.b = afterRequest(brk.b, brk.held[c], success, brk.t),
                            !.held[c] = 0,
                            !.was = brk.b.state,
                            !.events = afterRequestCalls(brk.b, brk.held[c], success, brk.t)]
    /\ UNCHANGED <<client, timed, pure, pool, lnch, uow, hc, single, pg>>

NextLog ==
    \/ LogTick
    \/ \E c \in Callers : LogBefore(c)
    \/ \E c \in Callers : LogAfter(c)

SpecLog == InitLog /\ [][NextLog]_vars

(* ---------------- C33 ---------------- *)
\* C33: a step in which the breaker changes state logs exactly one warning,
\* which carries the old and the new state, and a step in which it does not
\* change state logs none.
C33_OneWarningPerTransition ==
    brk.st = "live" =>
        brk.events =
            IF brk.b.state # brk.was
            THEN <<[level |-> "WARN",
                    msg |-> "httputil: cambio de estado del circuit breaker",
                    name |-> "http-client", from |-> brk.was, to |-> brk.b.state]>>
            ELSE << >>

\* a failed trial has just reopened the breaker and the warning says so
C33_Witness ==
    /\ brk.st = "live"
    /\ brk.was = "half-open" /\ brk.b.state = "open"
    /\ Len(brk.events) = 1 /\ brk.events[1].from = "half-open"

(* ======================================================================= *)
(* Further properties of the launcher.  FairSpecLauncher adds what the     *)
(* runtime guarantees during shutdown: the goroutine of the loop runs, and *)
(* time.After fires while shutdown is still waiting.  That an OnStop       *)
(* returns is not assumed.                                                 *)
(* ======================================================================= *)
FairSpecLauncher ==
    SpecLauncher /\ WF_vars(StopInvoke) /\ WF_vars(StopTimeout)

\* OnStop has been invoked on every registered component
AllStopped == \A c \in 1..lnch.n : PosOf("OnStop", c) # {}

(* ---------------- C34 ---------------- *)
\* C34: after an OnStart that returned an error no OnStart is invoked any
\* more, and when the process has ended of its own accord OnStop has been
\* invoked on every registered component, those whose OnStart was never
\* invoked among them, and the exit code is 1.  A process that a signal ended
\* during that shutdown has not exited with a code of its own.
C34_FailedStartStopsAll ==
    /\ \A p \in FailedStart : \A q \in Pos("OnStart") : q <= p
    /\ (FailedStart # {} /\ lnch.pc = "exited" /\ lnch.code # "killed") =>
          /\ AllStopped
          /\ \A p \in FailedStart : \A q \in Pos("OnStop") : p < q
          /\ lnch.code = "exit 1"

\* the process has ended after the first of several components failed to
\* start, and the last one was stopped without having been started
C34_Witness ==
    /\ lnch.pc = "exited" /\ lnch.n >= 2 /\ lnch.code = "exit 1"
    /\ FailedStart # {}
    /\ PosOf("OnStart", lnch.n) = {} /\ PosOf("OnStop", lnch.n) # {}

(* ---------------- C35 ---------------- *)
\* C35: a shutdown that has been entered comes to its end, with OnStop
\* invoked on every component, also when some OnStop never returns; the one
\* other way it ends is a signal that ends the process before signal.Notify.
C35_ShutdownTerminates ==
    (lnch.pc = "shutdown") ~>
        (lnch.pc = "exited" /\ (AllStopped \/ lnch.code = "killed"))

\* shutdown has returned although the OnStop of the component registered
\* last is still running, and the components before it were stopped
C35_Witness ==
    /\ lnch.pc = "exited" /\ lnch.n >= 2
    /\ lnch.stop[lnch.n] = "running"
    /\ PosOf("Timeout", lnch.n) # {}
    /\ AllStopped

(* ======================================================================= *)
(* Further properties of the worker pool.                                  *)
(* ======================================================================= *)
\* the workers inside a task
Busy == {w \in Workers : pool.wstate[w] = "busy"}

(* ---------------- C36 ---------------- *)
\* C36: a worker leaves a task, whether it returned nil or an error, to go
\* back to the receive of its loop, the error having been logged; a worker
\* ends only on a closed and drained queue; and a worker that has seen an
\* error takes the next task when one is queued.
C36_ErrorKeepsWorker ==
    [][ \A w \in 1..MaxPoolSize :
          w \in Workers =>
             /\ (pool.wstate[w] = "busy" /\ pool'.wstate[w] # "busy") =>
                   /\ pool'.wstate[w] = "ready"
                   /\ pool.job[w] \in pool'.executed
                   /\ pool'.erred[w] # pool.erred[w] => pool.job[w] \in pool'.errors
             /\ (pool.wstate[w] # "exited" /\ pool'.wstate[w] = "exited") =>
                   pool.closed /\ pool.queue = << >>
             /\ (pool.erred[w] /\ pool.wstate[w] = "ready" /\ pool.queue # << >>
                   /\ ~pool.crashed) =>
                   ENABLED (Receive(w) /\ pool'.job[w] = Head(pool.queue)) ]_vars

\* a worker has executed a task after one of its tasks returned an error
C36_Witness ==
    /\ pool.afterErr # {} /\ pool.errors # {}
    /\ \E w \in Workers : pool.erred[w] /\ pool.wstate[w] = "ready"

(* ---------------- C37 ---------------- *)
\* C37: no more than PoolSize tasks are being executed at a time, no task is
\* with two workers or both with a worker and in the queue, and no task is
\* executed more than once.
C37_AtMostOnce ==
    /\ Cardinality(Busy) <= pool.cfg.PoolSize
    /\ \A t \in Tasks : pool.runs[t] <= 1
    /\ \A v, w \in Busy : v # w => pool.job[v] # pool.job[w]
    /\ \A w \in Busy : pool.job[w] \notin Held /\ pool.runs[pool.job[w]] = 0
    /\ \A i, j \in DOMAIN pool.queue : i # j => pool.queue[i] # pool.queue[j]
    /\ \A t \in Held : pool.runs[t] = 0

(* ---------------- C38 ---------------- *)
\* C38: when Do is over after a Begin that succeeded, Rollback has been
\* invoked once and is the last call made on the transaction, whether fn
\* returned an error or panicked and whether Commit failed or succeeded; at
\* no time has Rollback been invoked twice or been followed by another call.
C38_RollbackOnceAndLast ==
    uow.st # "unused" =>
        LET rollbacks == {i \in DOMAIN uow.calls : uow.calls[i] = "Rollback"}
        IN /\ Cardinality(rollbacks) <= 1
           /\ \A i \in rollbacks : i = Len(uow.calls)
           /\ (UowOver /\ uow.beginErr = "nil") => Cardinality(rollbacks) = 1
           /\ (UowOver /\ uow.beginErr # "nil") => rollbacks = {}

\* Do has returned nil after a Commit that succeeded, and Rollback came last
C38_Witness ==
    /\ uow.st = "returned" /\ uow.ret = NilErr
    /\ uow.calls = <<"Begin", "fn", "Commit", "Rollback">>

(* ---------------- C39 ---------------- *)
\* the goroutines and the handler keep running: a check that can return
\* does, and the handler receives and answers whenever it can
FairSpecHealth ==
    /\ SpecHealth
    /\ \A i \in 1..MaxChecks : WF_vars(Report(i))
    /\ WF_vars(Collect) /\ WF_vars(Respond)

\* C39: once the 5 seconds of the handler's context have elapsed, the
\* handler answers, even when a registered check has not returned.
C39_AnswersAfterTimeout == hc.ctxDone ~> (hc.st = "responded")

(* ---------------- C40 ---------------- *)
\* C40: on a component that was not stopped, an OnInit that returns nil leaves
\* the pool initialized; in particular an OnInit called after one that failed
\* does not return nil with the pool still unset.
C40_NilOnlyWhenInitialized ==
    (pg.st # "unused" /\ pg.op = "OnInit" /\ pg.ret = NilErr /\ ~pg.stopped) =>
        pg.pool = "open"

====
